---- MODULE Spec2Model ----
(***************************************************************************)
(* Model of the Libview backend (src/backend/app/api.py): the example      *)
(* aggregator with its file cache (get_library_examples) and the source    *)
(* locator (get_source_code).                                              *)
(*                                                                         *)
(* Time is counted in ticks of 1/TicksPerSec second, so that time.time()   *)
(* (a float) and int(time.time()) (its floor) are different things.        *)
(* A Python exception is a value: every modelled step returns a record     *)
(* with a field exc ("none" when it returned normally), and each           *)
(* try/except of the source is an explicit test of that field.             *)
(***************************************************************************)
EXTENDS Integers, Sequences, FiniteSets, TLC

VARIABLES
    clock,     \* time.time(), in ticks
    cache,     \* CODE_EXAMPLES_CACHE_DIR: library name -> cache file
    call,      \* the get_library_examples request handled last, with the outcomes of its environment
    pre,       \* the cache directory and the clock when that request arrived
    path,      \* "hit" | "miss" | "error": the branch that request took
    did,       \* the steps that request performed
    resp,      \* the HTTP response to that request
    pc,        \* "idle" | "pending" | "done"
    srcCall,   \* the get_source_code request, with the module world it meets
    srcResp,   \* the HTTP response to that request
    infoCall,  \* the get_library_info request, with the module it meets
    infoResp,  \* the HTTP response to that request
    docstring, \* the argument of format_docstring
    formatted, \* what format_docstring returned, one value per application
    text,      \* the argument of extract_code_blocks
    examples,  \* what extract_code_blocks returned, or the exception it raised
    pypiCall,  \* the search_pypi request, with the answers of the registry
    pypiResp,  \* the HTTP response to that request
    disk,      \* the cache file two concurrent requests share
    reqs,      \* the two concurrent get_library_examples requests
    fetch,     \* the loop over the code-search results of one request
    fileCall,  \* the arguments of extract_relevant_code
    snippet,   \* what extract_relevant_code returned
    askCall,   \* the question put to the assistant, with the registry's answer
    askResp    \* what the assistant returned

exVars == <<clock, cache, call, pre, path, did, resp>>
srcVars == <<srcCall, srcResp>>

otherVars == <<fileCall, snippet, askCall, askResp>>

\* the variables of the other handlers
restVars ==
    <<infoCall, infoResp, docstring, formatted, text, examples,
      pypiCall, pypiResp, disk, reqs, fetch, otherVars>>

vars == <<exVars, pc, srcVars, restVars>>

----------------------------------------------------------------------------
(* Bounds of the model *)

TicksPerSec == 2
StartSec == 1000000
MaxDrift == 1
MaxItems == 2
MaxAnswers == 2
MaxFragments == 3
MaxMembers == 2
MaxIndex == 2
MaxPage == 2
MaxPerPage == 2
MaxChunks == 2
MaxResults == 6
MaxBefore == 6
MaxAfter == 31
MaxWords == 3
MaxFound == 21

(* Constants of the program *)

CacheMaxAge == 604800
ItemLimit == 5
MinCodeLen == 20
ReprLimit == 1000
ValueLimit == 1000
EllipsisLen == 3
ExactRelevance == 100
SubstringRelevance == 90
OffsetCap == 80
NoMatchRelevance == 50
BasicRelevance == 50
PlaceholderRelevance == 0
LinesBefore == 5
LinesAfter == 30
SnippetLimit == 2000
DefaultMaxResults == 20
FallbackLimit == 10
TopCategories == 2
MinLibraries == 5
LibraryLimit == 15

WeekTicks == CacheMaxAge * TicksPerSec
StartTicks == StartSec * TicksPerSec

SeqsUpTo(S, n) == UNION {[1..k -> S] : k \in 0..n}

Take(s, n) == IF Len(s) <= n THEN s ELSE SubSeq(s, 1, n)

----------------------------------------------------------------------------
(* The modules of the interpreter: importlib.import_module and str.lower *)

LibraryNames == {"json", "Flask", "PIL", "doesnotexist123", "brokenmod"}

Installed == {"json", "flask", "PIL"}

\* modules whose import raises something that is not an ImportError
Broken == {"brokenmod"}

Lower(name) ==
    CASE name = "Flask" -> "flask"
      [] name = "PIL" -> "pil"
      [] OTHER -> name

ImportModule(name) ==
    IF name \in Installed THEN [exc |-> "none", module |-> name]
    ELSE IF name \in Broken THEN [exc |-> "Exception", module |-> ""]
    ELSE [exc |-> "ImportError", module |-> ""]

\* try: import_module(name.lower())  except ImportError: import_module(name)
LoadModule(library_name) ==
    LET first == ImportModule(Lower(library_name))
    IN  IF first.exc = "ImportError" THEN ImportModule(library_name) ELSE first

----------------------------------------------------------------------------
(* The values of the variables of a handler that has not run *)

\* the object of a request whose names resolve to nothing
NoObject ==
    [kind |-> "other", getsource |-> "TypeError", hasFile |-> FALSE,
     hasDoc |-> FALSE, reprRaises |-> FALSE, reprLen |-> 0]

NoSourceCall ==
    [library_name |-> "", type |-> "", name |-> "", parent |-> "", obj |-> NoObject]

NoSrcResp == [code |-> 0, status |-> "", message |-> "", parts |-> <<>>]

\* None, where a string is expected
NoText == [none |-> TRUE, s |-> <<>>]

\* the values of the variables of the other handlers before they are called
Idle ==
    [infoCall |-> [library_name |-> "", env |-> <<>>],
     infoResp |-> [code |-> 0, status |-> ""],
     docstring |-> NoText, formatted |-> <<>>,
     text |-> NoText, examples |-> [exc |-> "", out |-> <<>>],
     pypiCall |-> [query |-> <<>>], pypiResp |-> [code |-> 0, status |-> ""],
     disk |-> <<>>, reqs |-> <<>>, fetch |-> <<>>,
     fileCall |-> [file_content |-> <<>>, library_name |-> <<>>], snippet |-> NoText,
     askCall |-> [query |-> <<>>, registry |-> [kind |-> ""]],
     askResp |-> [categories |-> <<>>, response |-> [query |-> <<>>]]]

----------------------------------------------------------------------------
(* The cache file of a library *)

NoPayload ==
    [status |-> "", library_name |-> "", examples |-> <<>>,
     timestamp |-> 0, tsKind |-> "missing"]

AbsentFile == [kind |-> "absent", payload |-> NoPayload]

\* a file whose content is not the JSON object the program writes
DamagedFile(kind) == [kind |-> kind, payload |-> NoPayload]

\* a JSON object: its timestamp is a number, a string or missing
DictFile(payload) == [kind |-> "dict", payload |-> payload]

DamagedKinds == {"unreadable", "empty", "truncated", "notjson", "list"}

\* with open(cache_file, 'r') as f: cached_data = json.load(f)
JsonLoad(file) ==
    CASE file.kind = "unreadable" -> [exc |-> "OSError", data |-> NoPayload, shape |-> ""]
      [] file.kind \in {"empty", "truncated", "notjson"} ->
            [exc |-> "JSONDecodeError", data |-> NoPayload, shape |-> ""]
      [] file.kind = "list" -> [exc |-> "none", data |-> NoPayload, shape |-> "list"]
      [] OTHER -> [exc |-> "none", data |-> file.payload, shape |-> "dict"]

\* IsFresh with >= for >: an entry exactly a week old would still be used
IsFreshInclusive(data, now) ==
    LET ts == IF data.tsKind = "missing" THEN 0 ELSE data.timestamp
    IN  ts * TicksPerSec >= now - WeekTicks

\* cached_data.get('timestamp', 0) > time.time() - (7 * 24 * 60 * 60)
IsFresh(data, now) ==
    LET ts == IF data.tsKind = "missing" THEN 0 ELSE data.timestamp
    IN  ts * TicksPerSec > now - WeekTicks

\* the body of the try block that reads the cache
ReadCacheBody(file, now) ==
    LET loaded == JsonLoad(file)
    IN  IF loaded.exc # "none"
        THEN [exc |-> loaded.exc, hit |-> FALSE, data |-> NoPayload]
        ELSE IF loaded.shape # "dict"
        THEN [exc |-> "AttributeError", hit |-> FALSE, data |-> NoPayload]
        ELSE IF loaded.data.tsKind = "string"
        THEN [exc |-> "TypeError", hit |-> FALSE, data |-> NoPayload]
        ELSE [exc |-> "none", hit |-> IsFresh(loaded.data, now), data |-> loaded.data]

\* CheckCache without its try/except: a failed read reaches the caller
CheckCacheUncaught(file, now) ==
    IF file.kind = "absent"
    THEN [exc |-> "none", hit |-> FALSE, data |-> NoPayload]
    ELSE ReadCacheBody(file, now)

\* if cache_file.exists(): try: ... except Exception as e: print(...)
CheckCache(file, now) ==
    IF file.kind = "absent"
    THEN [exc |-> "none", hit |-> FALSE, data |-> NoPayload]
    ELSE LET r == ReadCacheBody(file, now)
         IN  IF r.exc # "none"
             THEN [exc |-> "none", hit |-> FALSE, data |-> NoPayload]
             ELSE r

\* int(time.time())
IntTime(now) == now \div TicksPerSec

\* try: with open(cache_file, 'w') as f: json.dump(result, f)  except Exception: print(...)
WriteOutcomes == {"ok", "open_fails", "dump_fails"}

\* WriteCache without its try/except: a failed write reaches the caller
WriteCacheUncaught(file, result, outcome) ==
    CASE outcome = "ok" -> [exc |-> "none", file |-> DictFile(result)]
      [] outcome = "open_fails" -> [exc |-> "OSError", file |-> file]
      [] OTHER -> [exc |-> "OSError", file |-> DamagedFile("truncated")]

WriteCache(file, result, outcome) ==
    CASE outcome = "ok" -> [exc |-> "none", file |-> DictFile(result)]
      [] outcome = "open_fails" -> [exc |-> "none", file |-> file]
      [] OTHER -> [exc |-> "none", file |-> DamagedFile("truncated")]

----------------------------------------------------------------------------
(* The three sources of examples.  Each example keeps its source label,    *)
(* the item and block it came from, and its code as a sequence of tokens.  *)

Example(source, item, block, code) ==
    [source |-> source, item |-> item, block |-> block, code |-> code]

\* Outcomes of one public or private member of the module, in getmembers order:
\*   private: its name starts with '_'      other: neither class nor function
\*   nodoc:   its __doc__ is empty          plain: extract_code_blocks returns []
\*   example: it returns one block          raise: extract_code_blocks raises
MemberOutcomes == {"private", "other", "nodoc", "plain", "example", "raise"}

ModuleDocOutcomes == {"nodoc", "example", "raise"}

\* for name, obj in inspect.getmembers(module): ...
RECURSIVE MemberExamples(_, _, _)
MemberExamples(members, i, acc) ==
    IF i > Len(members) THEN [exc |-> "none", examples |-> acc]
    ELSE CASE members[i] = "raise" -> [exc |-> "ValueError", examples |-> acc]
           [] members[i] = "example" ->
                MemberExamples(members, i + 1,
                    Append(acc, Example("Member Documentation", i, 1, <<"docstring">>)))
           [] OTHER -> MemberExamples(members, i + 1, acc)

\* the body of the try block that extracts the docstring examples
DocstringBody(library_name, d) ==
    LET load == LoadModule(library_name)
    IN  IF load.exc # "none" THEN [exc |-> load.exc, examples |-> <<>>]
        ELSE IF d.moduleDoc = "raise" THEN [exc |-> "ValueError", examples |-> <<>>]
        ELSE MemberExamples(d.members, 1,
                IF d.moduleDoc = "example"
                THEN <<Example("Library Documentation", 0, 1, <<"docstring">>)>>
                ELSE <<>>)

\* try: ... except Exception as e: print(...): what was appended stays
DocstringExamples(library_name, d) ==
    [exc |-> "none", examples |-> DocstringBody(library_name, d).examples]

\* Outcomes of fetching one code-search item
GithubItemOutcomes ==
    {"ok", "exception", "non200", "badjson", "nocontent", "undecodable", "irrelevant"}

SearchOutcomes == {"ok", "exception", "non200", "badjson"}

\* the body of the per-item try block
GithubItemBody(outcome, i) ==
    CASE outcome = "exception" -> [exc |-> "RequestException", examples |-> <<>>]
      [] outcome = "badjson" -> [exc |-> "JSONDecodeError", examples |-> <<>>]
      [] outcome = "undecodable" -> [exc |-> "UnicodeDecodeError", examples |-> <<>>]
      [] outcome = "ok" ->
            [exc |-> "none", examples |-> <<Example("GitHub", i, 1, <<"relevant">>)>>]
      [] OTHER -> [exc |-> "none", examples |-> <<>>]

\* GithubItem without its try/except: a failed item ends the loop
GithubItemUncaught(outcome, i) == GithubItemBody(outcome, i)

\* try: ... except Exception as e: print(f"Error fetching GitHub file: {e}")
GithubItem(outcome, i) ==
    [exc |-> "none", examples |-> GithubItemBody(outcome, i).examples]

\* for item in data.get('items', [])[:5]: ...
RECURSIVE GithubItems(_, _, _)
GithubItems(items, i, acc) ==
    IF i > Len(items) THEN [exc |-> "none", examples |-> acc]
    ELSE LET r == GithubItem(items[i], i)
         IN  IF r.exc # "none" THEN [exc |-> r.exc, examples |-> acc \o r.examples]
             ELSE GithubItems(items, i + 1, acc \o r.examples)

\* the body of the try block around the code search
GithubBody(g) ==
    CASE g.search = "exception" -> [exc |-> "RequestException", examples |-> <<>>]
      [] g.search = "badjson" -> [exc |-> "JSONDecodeError", examples |-> <<>>]
      [] g.search = "non200" -> [exc |-> "none", examples |-> <<>>]
      [] OTHER -> GithubItems(Take(g.items, ItemLimit), 1, <<>>)

GithubExamples(g) == [exc |-> "none", examples |-> GithubBody(g).examples]

\* for i, code in enumerate(code_blocks): if len(code) < 20: continue ...
RECURSIVE CodeBlocks(_, _, _, _)
CodeBlocks(blocks, item, b, acc) ==
    IF b > Len(blocks) THEN acc
    ELSE CodeBlocks(blocks, item, b + 1,
            IF blocks[b] < MinCodeLen THEN acc
            ELSE Append(acc, Example("Stack Overflow", item, b, <<"answer">>)))

\* the body of the per-item try block: body `blocks` is the lengths of the
\* <code> fragments of the answer; raises when the body is no string
StackOverflowItemBody(q, i) ==
    IF q.raises THEN [exc |-> "TypeError", examples |-> <<>>]
    ELSE [exc |-> "none", examples |-> CodeBlocks(q.blocks, i, 1, <<>>)]

StackOverflowItem(q, i) ==
    [exc |-> "none", examples |-> StackOverflowItemBody(q, i).examples]

RECURSIVE StackOverflowItems(_, _, _)
StackOverflowItems(items, i, acc) ==
    IF i > Len(items) THEN [exc |-> "none", examples |-> acc]
    ELSE LET r == StackOverflowItem(items[i], i)
         IN  IF r.exc # "none" THEN [exc |-> r.exc, examples |-> acc \o r.examples]
             ELSE StackOverflowItems(items, i + 1, acc \o r.examples)

StackOverflowBody(s) ==
    CASE s.search = "exception" -> [exc |-> "RequestException", examples |-> <<>>]
      [] s.search = "badjson" -> [exc |-> "JSONDecodeError", examples |-> <<>>]
      [] s.search = "non200" -> [exc |-> "none", examples |-> <<>>]
      [] OTHER -> StackOverflowItems(Take(s.items, ItemLimit), 1, <<>>)

StackOverflowExamples(s) == [exc |-> "none", examples |-> StackOverflowBody(s).examples]

\* Combine with the code-search examples first
CombineGithubFirst(docs, github, stackoverflow) == github \o docs \o stackoverflow

\* all_examples = docstring_examples + github_examples + stackoverflow_examples
Combine(docs, github, stackoverflow) == docs \o github \o stackoverflow

\* if not all_examples: all_examples = [{... "source": "Generated" ...}]
GeneratedExample(library_name) ==
    Example("Generated", 0, 0, <<"import", library_name>>)

\* WithFallback that adds the synthetic example to every list
WithFallbackAlways(library_name, all) ==
    Append(all, GeneratedExample(library_name))

WithFallback(library_name, all) ==
    IF all = <<>> THEN <<GeneratedExample(library_name)>> ELSE all

----------------------------------------------------------------------------
(* get_library_examples *)

ErrorBody ==
    [status |-> "error", library_name |-> "", examples |-> <<>>,
     timestamp |-> 0, tsKind |-> "missing"]

\* except Exception as e: return jsonify({"status": "error", ...}), 500
ErrorOutcome(file, now, steps) ==
    [path |-> "error", resp |-> [code |-> 500, body |-> ErrorBody],
     file |-> file, now |-> now, did |-> steps]

\* HitOutcome that also stamps the entry anew on every hit
HitOutcomeRestamping(data, file, now) ==
    [path |-> "hit", resp |-> [code |-> 200, body |-> data],
     file |-> DictFile([data EXCEPT !.timestamp = IntTime(now)]), now |-> now,
     did |-> {"write"}]

\* return jsonify(cached_data)
HitOutcome(data, file, now) ==
    [path |-> "hit", resp |-> [code |-> 200, body |-> data],
     file |-> file, now |-> now, did |-> {}]

AggregationSteps == {"docstrings", "github", "stackoverflow"}

\* what a request for library_name does, given its cache file, the clock
\* and the outcomes e of its environment: the branch taken, the response,
\* the file and the clock when it returns, and the steps it performed
ExamplesOutcome(library_name, e, file, now) ==
    LET c == CheckCache(file, now)
    IN  IF c.exc # "none" THEN ErrorOutcome(file, now, {})
        ELSE IF c.hit THEN HitOutcome(c.data, file, now)
        ELSE
        LET docs == DocstringExamples(library_name, e.doc)
            github == GithubExamples(e.gh)
            stackoverflow == StackOverflowExamples(e.so)
            all == WithFallback(library_name,
                        Combine(docs.examples, github.examples, stackoverflow.examples))
            built == now + e.elapsed
            result == [status |-> "success", library_name |-> library_name,
                       examples |-> all, timestamp |-> IntTime(built), tsKind |-> "int"]
            w == WriteCache(file, result, e.write)
        IN  IF docs.exc # "none" \/ github.exc # "none" \/ stackoverflow.exc # "none"
            THEN ErrorOutcome(file, built, AggregationSteps)
            ELSE IF w.exc # "none"
            THEN ErrorOutcome(w.file, built, AggregationSteps \cup {"write"})
            ELSE [path |-> "miss", resp |-> [code |-> 200, body |-> result],
                  file |-> w.file, now |-> built,
                  did |-> AggregationSteps \cup {"write"}]

GetLibraryExamples(library_name, e) ==
    LET o == ExamplesOutcome(library_name, e, cache[library_name], clock)
    IN  /\ call' = [lib |-> library_name, env |-> e]
        /\ pre' = [cache |-> cache, clock |-> clock]
        /\ path' = o.path
        /\ did' = o.did
        /\ resp' = o.resp
        /\ cache' = [cache EXCEPT ![library_name] = o.file]
        /\ clock' = o.now

----------------------------------------------------------------------------
(* The cache over time: requests, the clock, and the cache directory       *)
(* changed from outside the program.                                       *)

CacheLibs == {"json", "doesnotexist123"}

NoDocs == [moduleDoc |-> "nodoc", members |-> <<>>]
SearchFails == [search |-> "exception", items |-> <<>>]

\* the environments met by the requests of Spec: the sources yield nothing
\* (only the synthetic fallback is left) or one code-search example
CacheEnvs ==
    {[doc |-> NoDocs, gh |-> g, so |-> SearchFails, write |-> w, elapsed |-> t] :
        g \in {SearchFails, [search |-> "ok", items |-> <<"ok">>]},
        w \in WriteOutcomes, t \in 0..1}

NoEnv == [doc |-> NoDocs, gh |-> SearchFails, so |-> SearchFails,
          write |-> "ok", elapsed |-> 0]

NoCall == [lib |-> "", env |-> NoEnv]
NoResp == [code |-> 0, body |-> NoPayload]

\* the files somebody else may leave in the cache directory
ForeignFiles ==
    {AbsentFile} \cup {DamagedFile(k) : k \in DamagedKinds}
    \cup {DictFile([NoPayload EXCEPT !.tsKind = k]) : k \in {"missing", "string"}}

\* the instants of the model: the first ticks after the start, and the
\* ticks from one second before a week has passed
Instants ==
    {StartTicks + k : k \in 0..MaxDrift}
    \cup {StartTicks + WeekTicks - TicksPerSec + k : k \in 0..(TicksPerSec + MaxDrift)}

\* time passes between two requests
Advance ==
    /\ pc = "idle"
    /\ \E t \in Instants : t > clock /\ clock' = t
    /\ pre' = [cache |-> cache, clock |-> clock']
    /\ UNCHANGED <<cache, call, path, did, resp, pc, srcVars, restVars>>

\* the cache file of a library is deleted, damaged or replaced from outside
Tamper ==
    /\ pc = "idle"
    /\ \E lib \in CacheLibs, f \in ForeignFiles :
        /\ cache[lib] # f
        /\ cache' = [cache EXCEPT ![lib] = f]
    /\ pre' = [cache |-> cache', clock |-> clock]
    /\ UNCHANGED <<clock, call, path, did, resp, pc, srcVars, restVars>>

\* a request arrives and is answered
Request ==
    /\ pc = "idle"
    /\ \E lib \in CacheLibs, e \in CacheEnvs :
        /\ clock + e.elapsed \in Instants
        /\ GetLibraryExamples(lib, e)
    /\ pc' = "done"
    /\ UNCHANGED <<srcVars, restVars>>

\* the response has left: the server waits for the next request
Return ==
    /\ pc = "done"
    /\ pc' = "idle"
    /\ call' = NoCall
    /\ path' = "none"
    /\ did' = {}
    /\ resp' = NoResp
    /\ pre' = [cache |-> cache, clock |-> clock]
    /\ UNCHANGED <<clock, cache, srcVars, restVars>>

\* every handler but those of S has not been called
IdleExcept(S) ==
    /\ IF "examples" \in S THEN TRUE
       ELSE /\ clock = StartTicks
            /\ cache = [lib \in CacheLibs |-> AbsentFile]
            /\ call = NoCall
            /\ pre = [cache |-> cache, clock |-> clock]
            /\ path = "none"
            /\ did = {}
            /\ resp = NoResp
    /\ IF "source" \in S THEN TRUE
       ELSE srcCall = NoSourceCall /\ srcResp = NoSrcResp
    /\ IF "info" \in S THEN TRUE
       ELSE infoCall = Idle.infoCall /\ infoResp = Idle.infoResp
    /\ IF "format" \in S THEN TRUE
       ELSE docstring = Idle.docstring /\ formatted = Idle.formatted
    /\ IF "extract" \in S THEN TRUE
       ELSE text = Idle.text /\ examples = Idle.examples
    /\ IF "pypi" \in S THEN TRUE
       ELSE pypiCall = Idle.pypiCall /\ pypiResp = Idle.pypiResp
    /\ IF "race" \in S THEN TRUE
       ELSE disk = Idle.disk /\ reqs = Idle.reqs
    /\ IF "fetch" \in S THEN TRUE
       ELSE fetch = Idle.fetch
    /\ IF "relevant" \in S THEN TRUE
       ELSE fileCall = Idle.fileCall /\ snippet = Idle.snippet
    /\ IF "ask" \in S THEN TRUE
       ELSE askCall = Idle.askCall /\ askResp = Idle.askResp

Init ==
    /\ clock = StartTicks
    /\ cache = [lib \in CacheLibs |-> AbsentFile]
    /\ call = NoCall
    /\ pre = [cache |-> cache, clock |-> clock]
    /\ path = "none"
    /\ did = {}
    /\ resp = NoResp
    /\ pc = "idle"
    /\ IdleExcept({"examples"})

Next == Request \/ Return \/ Advance \/ Tamper

Spec == Init /\ [][Next]_vars

----------------------------------------------------------------------------
(* One aggregation: a request that meets an empty cache directory, for     *)
(* every combination of outcomes of the three sources.                     *)

DocEnvs ==
    {[moduleDoc |-> m, members |-> q] :
        m \in ModuleDocOutcomes, q \in SeqsUpTo(MemberOutcomes, 1)}

\* a result page longer than the limit, every item of it usable
LongPage(outcome) == [k \in 1..(ItemLimit + 1) |-> outcome]

GithubEnvs ==
    {[search |-> s, items |-> <<>>] : s \in SearchOutcomes \ {"ok"}}
    \cup {[search |-> "ok", items |-> q] : q \in SeqsUpTo(GithubItemOutcomes, MaxItems)}
    \cup {[search |-> "ok", items |-> LongPage("ok")]}

\* an answer whose body is no string, and one with a fragment of 19 and a
\* fragment of 20 characters
AnswerOutcomes ==
    {[raises |-> TRUE, blocks |-> <<>>],
     [raises |-> FALSE, blocks |-> <<MinCodeLen - 1, MinCodeLen>>]}

StackOverflowEnvs ==
    {[search |-> s, items |-> <<>>] : s \in SearchOutcomes \ {"ok"}}
    \cup {[search |-> "ok", items |-> q] : q \in SeqsUpTo(AnswerOutcomes, MaxAnswers)}
    \cup {[search |-> "ok",
           items |-> LongPage([raises |-> FALSE, blocks |-> <<MinCodeLen>>])]}

\* the environment of one aggregation: the write succeeds at once
AggEnv(d, g, q) == [doc |-> d, gh |-> g, so |-> q, write |-> "ok", elapsed |-> 0]

\* every combination of outcomes; the docstrings only matter for a
\* library that loads
InitAgg ==
    /\ clock = StartTicks
    /\ cache = [lib \in CacheLibs |-> AbsentFile]
    /\ \E lib \in CacheLibs, d \in DocEnvs, g \in GithubEnvs, q \in StackOverflowEnvs :
            /\ LoadModule(lib).exc # "none" => d = NoDocs
            /\ call = [lib |-> lib, env |-> AggEnv(d, g, q)]
    /\ pre = [cache |-> cache, clock |-> clock]
    /\ path = "none"
    /\ did = {}
    /\ resp = NoResp
    /\ pc = "pending"
    /\ IdleExcept({"examples"})

Aggregate ==
    /\ pc = "pending"
    /\ GetLibraryExamples(call.lib, call.env)
    /\ pc' = "done"
    /\ UNCHANGED <<srcVars, restVars>>

NextAgg == Aggregate

SpecAgg == InitAgg /\ [][NextAgg]_vars

----------------------------------------------------------------------------
(* get_source_code.  A request is the library name and the query           *)
(* arguments type, name and parent ("" when the argument is missing or     *)
(* empty: both are falsy).  The nature of the object the names resolve to  *)
(* is part of the environment of the request.                              *)

\* the public attributes of the installed modules, and of their classes
ModuleMembers(module) ==
    IF module = "json" THEN {"JSONEncoder", "dumps"} ELSE {}

ClassMembers(class) ==
    IF class = "JSONEncoder" THEN {"encode"} ELSE {}

\* getattr(module, name)
GetModuleAttr(module, name) ==
    IF name \in ModuleMembers(module)
    THEN [exc |-> "none", obj |-> name]
    ELSE [exc |-> "AttributeError", obj |-> ""]

\* getattr(class_obj, name)
GetClassAttr(class, name) ==
    IF name \in ClassMembers(class)
    THEN [exc |-> "none", obj |-> name]
    ELSE [exc |-> "AttributeError", obj |-> ""]

\* the if/elif chain that gets the target object
ResolveTarget(module, element_type, element_name, parent_class) ==
    IF element_type = "class" THEN GetModuleAttr(module, element_name)
    ELSE IF element_type = "function" THEN GetModuleAttr(module, element_name)
    ELSE IF element_type = "method" /\ parent_class # ""
    THEN LET class_obj == GetModuleAttr(module, parent_class)
         IN  IF class_obj.exc # "none" THEN class_obj
             ELSE GetClassAttr(class_obj.obj, element_name)
    ELSE [exc |-> "invalid", obj |-> ""]

\* ModuleInfo with the native-implementation note ahead of the type line
ModuleInfoNoteFirst(o) ==
    (IF o.hasFile THEN <<"file_path">> ELSE <<>>)
    \o (IF o.kind = "builtin" THEN <<"native_note">> ELSE <<>>)
    \o <<"object_type">>
    \o (IF o.kind = "builtin_class" THEN <<"native_note">>
        ELSE IF o.kind = "class" THEN <<"declaring_module">>
        ELSE <<>>)

\* module_info: the lines describing the module and the target
ModuleInfo(o) ==
    (IF o.hasFile THEN <<"file_path">> ELSE <<>>)
    \o <<"object_type">>
    \o (IF o.kind = "builtin" THEN <<"native_note">> ELSE <<>>)
    \o (IF o.kind = "builtin_class" THEN <<"native_note">>
        ELSE IF o.kind = "class" THEN <<"declaring_module">>
        ELSE <<>>)

\* if hasattr(target_obj, '__code__') or not inspect.isbuiltin(target_obj):
\*     source_code = inspect.getsource(target_obj)
\* else: raise TypeError("No source code available")
GetSource(o) ==
    IF o.kind = "builtin" THEN "TypeError" ELSE o.getsource

\* the except (TypeError, OSError) block: the fallback composite
Fallback(o) ==
    <<"header">>
    \o ModuleInfo(o)
    \o (IF o.hasDoc THEN <<"docstring">> ELSE <<>>)
    \o (IF ~o.reprRaises /\ o.reprLen < ReprLimit THEN <<"repr">> ELSE <<>>)

InvalidParameters ==
    [code |-> 400, status |-> "error", message |-> "missing_parameters", parts |-> <<>>]

InvalidElement ==
    [code |-> 400, status |-> "error", message |-> "invalid_element", parts |-> <<>>]

\* ExceptionResponse without the except AttributeError clause
ExceptionResponseNoAttribute(exc) ==
    CASE exc = "ImportError" ->
            [code |-> 404, status |-> "error", message |-> "library_not_found", parts |-> <<>>]
      [] OTHER ->
            [code |-> 500, status |-> "error", message |-> "error_accessing", parts |-> <<>>]

\* the except clauses that end get_source_code
ExceptionResponse(exc) ==
    CASE exc = "ImportError" ->
            [code |-> 404, status |-> "error", message |-> "library_not_found", parts |-> <<>>]
      [] exc = "AttributeError" ->
            [code |-> 404, status |-> "error", message |-> "element_not_found", parts |-> <<>>]
      [] OTHER ->
            [code |-> 500, status |-> "error", message |-> "error_accessing", parts |-> <<>>]

SourceOutcome(q) ==
    IF q.name = "" \/ q.type = "" THEN InvalidParameters
    ELSE
    LET load == LoadModule(q.library_name)
        target == ResolveTarget(load.module, q.type, q.name, q.parent)
        got == GetSource(q.obj)
    IN  IF load.exc # "none" THEN ExceptionResponse(load.exc)
        ELSE IF target.exc = "invalid" THEN InvalidElement
        ELSE IF target.exc # "none" THEN ExceptionResponse(target.exc)
        ELSE IF got = "ok"
        THEN [code |-> 200, status |-> "success", message |-> "", parts |-> <<"source">>]
        ELSE IF got \in {"TypeError", "OSError"}
        THEN [code |-> 200, status |-> "success", message |-> "", parts |-> Fallback(q.obj)]
        ELSE ExceptionResponse(got)

ElementTypes == {"", "class", "function", "method", "widget"}
ElementNames == {"", "x", "JSONEncoder", "dumps", "encode"}
ParentNames == {"", "JSONEncoder", "dumps"}

ObjectKinds == {"class", "builtin_class", "function", "builtin", "other"}

Objects ==
    [kind : ObjectKinds, getsource : {"ok", "TypeError", "OSError"},
     hasFile : BOOLEAN, hasDoc : BOOLEAN, reprRaises : BOOLEAN,
     reprLen : {ReprLimit - 1, ReprLimit}]

Requests ==
    [library_name : LibraryNames, type : ElementTypes,
     name : ElementNames, parent : ParentNames]

\* the names of request r resolve to an object
Resolves(r) ==
    /\ r.name # "" /\ r.type # ""
    /\ LoadModule(r.library_name).exc = "none"
    /\ ResolveTarget(LoadModule(r.library_name).module, r.type, r.name, r.parent).exc = "none"

WithObject(r, o) ==
    [library_name |-> r.library_name, type |-> r.type, name |-> r.name,
     parent |-> r.parent, obj |-> o]

\* every request, with every object its names may resolve to
SourceCalls ==
    {WithObject(r, NoObject) : r \in {x \in Requests : ~Resolves(x)}}
    \cup {WithObject(r, o) : r \in {x \in Requests : Resolves(x)}, o \in Objects}

InitSource ==
    /\ clock = StartTicks
    /\ cache = [lib \in CacheLibs |-> AbsentFile]
    /\ call = NoCall
    /\ pre = [cache |-> cache, clock |-> clock]
    /\ path = "none"
    /\ did = {}
    /\ resp = NoResp
    /\ pc = "pending"
    /\ srcCall \in SourceCalls
    /\ srcResp = NoSrcResp
    /\ IdleExcept({"examples", "source"})

GetSourceCode ==
    /\ pc = "pending"
    /\ srcResp' = SourceOutcome(srcCall)
    /\ pc' = "done"
    /\ UNCHANGED <<exVars, srcCall, restVars>>

NextSource == GetSourceCode

SpecSource == InitSource /\ [][NextSource]_vars

----------------------------------------------------------------------------
(* The text functions.  A string is a sequence of characters, so that the  *)
(* regular expressions and str methods of the source are computed on it.   *)

\* the character ` , which a TLA+ string cannot hold
Backtick == "backtick"

\* the character classes of the patterns: \s, \S, \w, \n, [^\n], a blank, [^`]
In(c, class) ==
    LET whitespace == {" ", "\n", "\t"}
        nonword == whitespace \cup {".", ":", Backtick, "~", "-", "[", "]", ">", "(", ")", "'"}
    IN  CASE class = "space" -> c \in whitespace
          [] class = "nonspace" -> c \notin whitespace
          [] class = "word" -> c \notin nonword
          [] class = "newline" -> c = "\n"
          [] class = "notnewline" -> c # "\n"
          [] class = "blank" -> c = " "
          [] OTHER -> c # Backtick

\* s[i-1:j] of the source, for 1-based i
Slice(s, i, j) == IF j < i THEN <<>> ELSE SubSeq(s, i, j)

\* s.startswith(lit, i-1)
HasAt(s, i, lit) ==
    /\ i >= 1
    /\ i + Len(lit) - 1 <= Len(s)
    /\ \A k \in 1..Len(lit) : s[i + k - 1] = lit[k]

Least(S) == CHOOSE x \in S : \A y \in S : x <= y

Greatest(S) == CHOOSE x \in S : \A y \in S : x >= y

\* the index after the longest run of characters of a class that starts at i
RunEnd(s, i, class) ==
    LET stops == {k \in i..Len(s) : ~In(s[k], class)}
    IN  IF stops = {} THEN (IF i > Len(s) THEN i ELSE Len(s) + 1) ELSE Least(stops)

\* str.strip()
Strip(s) ==
    LET kept == {k \in 1..Len(s) : ~In(s[k], "space")}
    IN  IF kept = {} THEN <<>> ELSE SubSeq(s, Least(kept), Greatest(kept))

RECURSIVE Concat(_)
\* ''.join(parts)
Concat(parts) ==
    IF parts = <<>> THEN <<>> ELSE Head(parts) \o Concat(Tail(parts))

\* a string argument
Str(s) == [none |-> FALSE, s |-> s]

\* a pattern that does not match at a position
NoMatch == [ok |-> FALSE, end |-> 0, group |-> <<>>]

----------------------------------------------------------------------------
(* format_docstring *)

\* the string literals of format_docstring
FormatLit ==
    [no_documentation |-> <<"N", "o", " ", "d", "o", "c", "u", "m", "e",
          "n", "t", "a", "t", "i", "o", "n", " ", "a", "v", "a", "i", "l",
          "a", "b", "l", "e">>,
     code_block |-> <<" ", "c", "o", "d", "e", "-", "b", "l", "o", "c",
          "k", ":", ":", " ">>,
     code_example |-> <<"\n", "C", "o", "d", "e", " ", "e", "x", "a", "m",
          "p", "l", "e", ":", "\n", "\n">>,
     class |-> <<":", "c", "l", "a", "s", "s", ":", Backtick>>,
     func |-> <<":", "f", "u", "n", "c", ":", Backtick>>,
     mimetype |-> <<":", "m", "i", "m", "e", "t", "y", "p", "e", ":",
          Backtick>>,
     data |-> <<":", "d", "a", "t", "a", ":", Backtick>>,
     ref |-> <<":", "r", "e", "f", ":", Backtick>>,
     versionchanged |-> <<" ", "v", "e", "r", "s", "i", "o", "n", "c", "h",
          "a", "n", "g", "e", "d", ":", ":", " ">>,
     versionadded |-> <<" ", "v", "e", "r", "s", "i", "o", "n", "a", "d",
          "d", "e", "d", ":", ":", " ">>,
     deprecated |-> <<" ", "d", "e", "p", "r", "e", "c", "a", "t", "e",
          "d", ":", ":", " ">>,
     changed_in |-> <<"\n", "[", "C", "h", "a", "n", "g", "e", "d", " ",
          "i", "n", " ", "v", "e", "r", "s", "i", "o", "n", " ">>,
     added_in |-> <<"\n", "[", "A", "d", "d", "e", "d", " ", "i", "n", " ",
          "v", "e", "r", "s", "i", "o", "n", " ">>,
     deprecated_in |-> <<"\n", "[", "D", "e", "p", "r", "e", "c", "a", "t",
          "e", "d", " ", "i", "n", " ", "v", "e", "r", "s", "i", "o", "n",
          " ">>,
     close |-> <<"]", ":", " ">>]

\* the pattern p matched at position i of s: the index after the match and
\* the group \1
Match(p, s, i) ==
    LET \* :role:`~?([^`]+)`  (the ~? only for class and func)
        j == i + Len(p.lit)
        t == IF p.tilde /\ j <= Len(s) /\ s[j] = "~" THEN j + 1 ELSE j
        b == RunEnd(s, j, "notbacktick")
        role ==
            IF ~HasAt(s, i, p.lit) \/ b > Len(s) \/ b = j THEN NoMatch
            ELSE [ok |-> TRUE, end |-> b + 1,
                  group |-> IF b > t THEN Slice(s, t, b - 1) ELSE Slice(s, j, b - 1)]
        \* .. directive:: with each . any character but a newline
        directive ==
            /\ i + 1 <= Len(s)
            /\ s[i] # "\n" /\ s[i + 1] # "\n"
            /\ HasAt(s, i + 2, p.lit)
        v == i + 2 + Len(p.lit)
        \* .. directive:: (\S+)\s+
        w == RunEnd(s, v, "nonspace")
        e == RunEnd(s, w, "space")
        version ==
            IF ~directive \/ w = v \/ e = w THEN NoMatch
            ELSE [ok |-> TRUE, end |-> e, group |-> Slice(s, v, w - 1)]
        \* .. code-block:: (\w+)\s*\n\n
        x == RunEnd(s, v, "word")
        y == RunEnd(s, x, "space")
        pairs == {k \in x..(y - 2) : s[k] = "\n" /\ s[k + 1] = "\n"}
        codeblock ==
            IF ~directive \/ x = v \/ pairs = {} THEN NoMatch
            ELSE [ok |-> TRUE, end |-> Greatest(pairs) + 2, group |-> Slice(s, v, x - 1)]
        \* \n{3,}
        n == RunEnd(s, i, "newline")
        newlines ==
            IF s[i] # "\n" \/ n - i < 3 THEN NoMatch
            ELSE [ok |-> TRUE, end |-> n, group |-> <<>>]
    IN  CASE p.kind = "role" -> role
          [] p.kind = "version" -> version
          [] p.kind = "codeblock" -> codeblock
          [] OTHER -> newlines

RECURSIVE SubFrom(_, _, _)
\* re.sub(pattern, repl, s) from position i on: leftmost matches, none
\* overlapping, each replaced by repl with \1 the group
SubFrom(p, s, i) ==
    IF i > Len(s) THEN <<>>
    ELSE LET m == Match(p, s, i)
         IN  IF m.ok THEN p.before \o (IF p.group THEN m.group ELSE <<>>) \o p.after
                          \o SubFrom(p, s, m.end)
             ELSE <<s[i]>> \o SubFrom(p, s, i + 1)

\* the substitutions of format_docstring, in the order it applies them
Substitutions ==
    LET Role(lit, tilde) ==
            [kind |-> "role", lit |-> lit, tilde |-> tilde,
             before |-> <<>>, group |-> TRUE, after |-> <<>>]
        Version(lit, head) ==
            [kind |-> "version", lit |-> lit,
             before |-> head, group |-> TRUE, after |-> FormatLit.close]
    IN  <<[kind |-> "codeblock", lit |-> FormatLit.code_block,
           before |-> FormatLit.code_example, group |-> FALSE, after |-> <<>>],
          Role(FormatLit.class, TRUE),
          Role(FormatLit.func, TRUE),
          Role(FormatLit.mimetype, FALSE),
          Role(FormatLit.data, FALSE),
          Role(FormatLit.ref, FALSE),
          Version(FormatLit.versionchanged, FormatLit.changed_in),
          Version(FormatLit.versionadded, FormatLit.added_in),
          Version(FormatLit.deprecated, FormatLit.deprecated_in),
          [kind |-> "newlines", before |-> <<"\n", "\n">>, group |-> FALSE, after |-> <<>>]>>

RECURSIVE SubAll(_, _, _)
\* formatted = re.sub(...), once for each substitution from the k-th on
SubAll(ps, k, s) ==
    IF k > Len(ps) THEN s ELSE SubAll(ps, k + 1, SubFrom(ps[k], s, 1))

FormatDocstring(d) ==
    IF d.none \/ d.s = <<>> THEN FormatLit.no_documentation
    ELSE Strip(SubAll(Substitutions, 1, d.s))

\* the pieces the documentation strings are put together from
DocFragments ==
    {<<" ">>, <<"\n">>, <<"a">>, <<Backtick>>, <<"~">>, FormatLit.class, FormatLit.ref,
     <<".", ".">> \o FormatLit.versionadded, <<".", ".">> \o FormatLit.code_block}

\* format_docstring applied to None and to every string of up to
\* MaxFragments pieces, and then to its own result
InitFormat ==
    /\ IdleExcept({"format"})
    /\ pc = "pending"
    /\ \/ docstring = NoText
       \/ \E q \in SeqsUpTo(DocFragments, MaxFragments) : docstring = Str(Concat(q))
    /\ formatted = <<>>

Format ==
    /\ pc = "pending"
    /\ formatted' = Append(formatted,
            FormatDocstring(IF formatted = <<>> THEN docstring ELSE Str(formatted[1])))
    /\ pc' = IF formatted = <<>> THEN "pending" ELSE "done"
    /\ UNCHANGED <<exVars, srcVars, otherVars, infoCall, infoResp, docstring, text, examples,
                   pypiCall, pypiResp, disk, reqs, fetch>>

SpecFormat == InitFormat /\ [][Format]_vars

----------------------------------------------------------------------------
(* extract_code_blocks *)

\* the string literals of extract_code_blocks
ExtractLit ==
    [fence_open |-> <<Backtick, Backtick, Backtick, "p", "y", "t", "h",
          "o", "n">>,
     fence_close |-> <<Backtick, Backtick, Backtick>>,
     prompt |-> <<">", ">", ">">>,
     prompt_space |-> <<">", ">", ">", " ">>,
     continuation |-> <<".", ".", ".">>,
     def |-> <<"d", "e", "f">>,
     class |-> <<"c", "l", "a", "s", "s">>,
     if |-> <<"i", "f">>,
     for |-> <<"f", "o", "r">>,
     import |-> <<"i", "m", "p", "o", "r", "t">>,
     with |-> <<"w", "i", "t", "h">>]

RECURSIVE SplitLines(_)
\* str.splitlines()
SplitLines(s) ==
    IF s = <<>> THEN <<>>
    ELSE LET e == RunEnd(s, 1, "notnewline")
         IN  <<Slice(s, 1, e - 1)>>
             \o (IF e >= Len(s) THEN <<>> ELSE SplitLines(Slice(s, e + 1, Len(s))))

RECURSIVE JoinLines(_)
\* '\n'.join(lines)
JoinLines(lines) ==
    IF lines = <<>> THEN <<>>
    ELSE IF Len(lines) = 1 THEN lines[1]
    ELSE lines[1] \o <<"\n">> \o JoinLines(Tail(lines))

\*  {4,}[^\n]+ at position p: the line has four leading blanks and a fifth character
IndentedLine(s, p) ==
    /\ RunEnd(s, p, "blank") - p >= 4
    /\ RunEnd(s, p, "notnewline") - p >= 5

RECURSIVE BlockEnd(_, _)
\* the index after the last line of the indented block whose first line starts at p
BlockEnd(s, p) ==
    LET e == RunEnd(s, p, "notnewline")
    IN  IF e <= Len(s) /\ IndentedLine(s, e + 1) THEN BlockEnd(s, e + 1) ELSE e

\* one of the three patterns of extract_code_blocks matched at position i of s
MatchBlock(kind, s, i) ==
    LET \* ```python\s+(.*?)\s+```  with re.DOTALL: the first \s+ takes all the
        \* whitespace it can and gives it back one character at a time, the
        \* group takes as little as it can
        a == i + Len(ExtractLit.fence_open)
        r == RunEnd(s, a, "space")
        FenceTail(g) ==
            /\ g <= Len(s)
            /\ In(s[g], "space")
            /\ HasAt(s, RunEnd(s, g, "space"), ExtractLit.fence_close)
        ends == {g \in r..Len(s) : FenceTail(g)}
        fenced ==
            IF ~HasAt(s, i, ExtractLit.fence_open) \/ r = a THEN NoMatch
            ELSE IF ends # {}
            THEN [ok |-> TRUE,
                  end |-> RunEnd(s, Least(ends), "space") + Len(ExtractLit.fence_close),
                  group |-> Slice(s, r, Least(ends) - 1)]
            ELSE IF r - a >= 2 /\ HasAt(s, r, ExtractLit.fence_close)
            THEN [ok |-> TRUE, end |-> r + Len(ExtractLit.fence_close), group |-> <<>>]
            ELSE NoMatch
        \* >>> (.*?)(?=>>>|\Z)  with re.DOTALL: up to the next prompt or the end
        g0 == i + Len(ExtractLit.prompt_space)
        nexts == {k \in g0..Len(s) : HasAt(s, k, ExtractLit.prompt)}
        e0 == IF nexts = {} THEN Len(s) + 1 ELSE Least(nexts)
        prompt ==
            IF ~HasAt(s, i, ExtractLit.prompt_space) THEN NoMatch
            ELSE [ok |-> TRUE, end |-> e0, group |-> Slice(s, g0, e0 - 1)]
        \* (?:^|\n)( {4,}[^\n]+(?:\n {4,}[^\n]+)*)  without re.MULTILINE
        indented ==
            IF i = 1 /\ IndentedLine(s, 1)
            THEN [ok |-> TRUE, end |-> BlockEnd(s, 1), group |-> Slice(s, 1, BlockEnd(s, 1) - 1)]
            ELSE IF s[i] = "\n" /\ IndentedLine(s, i + 1)
            THEN [ok |-> TRUE, end |-> BlockEnd(s, i + 1),
                  group |-> Slice(s, i + 1, BlockEnd(s, i + 1) - 1)]
            ELSE NoMatch
    IN  CASE kind = "fenced" -> fenced
          [] kind = "prompt" -> prompt
          [] OTHER -> indented

RECURSIVE FindAllFrom(_, _, _)
\* re.findall(pattern, s) from position i on: the groups of the leftmost
\* matches, none overlapping
FindAllFrom(kind, s, i) ==
    IF i > Len(s) THEN <<>>
    ELSE LET m == MatchBlock(kind, s, i)
         IN  IF m.ok THEN <<m.group>> \o FindAllFrom(kind, s, m.end)
             ELSE FindAllFrom(kind, s, i + 1)

RECURSIVE CodeLines(_)
\* the lines of a prompt block that start with >>> or ... , without their
\* first four characters
CodeLines(lines) ==
    IF lines = <<>> THEN <<>>
    ELSE LET st == Strip(Head(lines))
         IN  (IF HasAt(st, 1, ExtractLit.prompt) \/ HasAt(st, 1, ExtractLit.continuation)
              THEN <<Slice(st, 5, Len(st))>> ELSE <<>>)
             \o CodeLines(Tail(lines))

RECURSIVE PromptExamples(_)
\* one example for each prompt block that has a code line
PromptExamples(blocks) ==
    IF blocks = <<>> THEN <<>>
    ELSE LET code_lines == CodeLines(SplitLines(Head(blocks)))
         IN  (IF code_lines # <<>> THEN <<JoinLines(code_lines)>> ELSE <<>>)
             \o PromptExamples(Tail(blocks))

\* re.search(r'\bdef\b|\bclass\b|\bif\b|\bfor\b|\bimport\b|\bwith\b', code)
LooksLikePython(code) ==
    \E w \in {ExtractLit.def, ExtractLit.class, ExtractLit.if, ExtractLit.for,
              ExtractLit.import, ExtractLit.with} :
        \E i \in 1..Len(code) :
            /\ HasAt(code, i, w)
            /\ (i = 1 \/ ~In(code[i - 1], "word"))
            /\ (i + Len(w) > Len(code) \/ ~In(code[i + Len(w)], "word"))

RECURSIVE IndentedExamples(_)
\* the indented blocks, each without its common indentation, that look like
\* Python; min() of no indentation raises ValueError
IndentedExamples(blocks) ==
    IF blocks = <<>> THEN [exc |-> "none", out |-> <<>>]
    ELSE LET lines == SplitLines(Head(blocks))
             \* len(line) - len(line.lstrip()) of the lines that are not blank
             indents == {RunEnd(lines[k], 1, "space") - 1 :
                            k \in {j \in 1..Len(lines) : Strip(lines[j]) # <<>>}}
             common_indent == Least(indents)
             code == JoinLines([k \in 1..Len(lines) |->
                                   Slice(lines[k], common_indent + 1, Len(lines[k]))])
             rest == IndentedExamples(Tail(blocks))
         IN  IF lines # <<>> /\ indents = {} THEN [exc |-> "ValueError", out |-> <<>>]
             ELSE IF rest.exc # "none" THEN rest
             ELSE [exc |-> "none",
                   out |-> (IF lines # <<>> /\ LooksLikePython(code) THEN <<code>> ELSE <<>>)
                           \o rest.out]

ExtractCodeBlocks(d) ==
    IF d.none \/ d.s = <<>> THEN [exc |-> "none", out |-> <<>>]
    ELSE LET fenced == FindAllFrom("fenced", d.s, 1)
             prompts == PromptExamples(FindAllFrom("prompt", d.s, 1))
             indented == IndentedExamples(FindAllFrom("indented", d.s, 1))
         IN  IF indented.exc # "none" THEN indented
             ELSE [exc |-> "none", out |-> fenced \o prompts \o indented.out]

\* the pieces the texts given to extract_code_blocks are put together from
TextFragments ==
    {<<" ">>, <<" ", " ", " ", " ">>, <<"\n">>, <<"x">>, ExtractLit.def,
     ExtractLit.prompt_space, ExtractLit.continuation \o <<" ">>, ExtractLit.fence_open,
     ExtractLit.fence_close, <<"\n">> \o ExtractLit.fence_close}

\* extract_code_blocks applied to None and to every text of up to
\* MaxFragments pieces
InitExtract ==
    /\ IdleExcept({"extract"})
    /\ pc = "pending"
    /\ \/ text = NoText
       \/ \E q \in SeqsUpTo(TextFragments, MaxFragments) : text = Str(Concat(q))
    /\ examples = [exc |-> "", out |-> <<>>]

Extract ==
    /\ pc = "pending"
    /\ examples' = ExtractCodeBlocks(text)
    /\ pc' = "done"
    /\ UNCHANGED <<exVars, srcVars, otherVars, infoCall, infoResp, docstring, formatted, text,
                   pypiCall, pypiResp, disk, reqs, fetch>>

SpecExtract == InitExtract /\ [][Extract]_vars

----------------------------------------------------------------------------
(* get_library_info *)

\* name.startswith(c)
StartsWith(name, c) == Len(name) > 0 /\ name[1] = c

\* the names a member can have, in the order inspect.getmembers sorts them
MemberNames == <<<<"_", "x">>, <<"x">>, <<"x", "_">>>>

\* a docstring with markup, and no docstring
MemberDocs == {NoText, Str(FormatLit.class \o <<"a", Backtick>>)}

\* the members a module can have: a class with its attributes (functions and
\* others, public and private), a function, or another object, whose str()
\* raises or returns a string of strLen characters
Members ==
    LET Attr(name, isfunction) == [name |-> name, isfunction |-> isfunction]
        attrLists ==
            {<<>>,
             <<Attr(<<"_", "_", "i", "n", "i", "t", "_", "_">>, TRUE), Attr(<<"m">>, TRUE)>>,
             <<Attr(<<"_", "m">>, TRUE), Attr(<<"m", "_">>, TRUE), Attr(<<"v">>, FALSE)>>}
        noStr == [raises |-> FALSE, strLen |-> 0]
        strOutcomes ==
            {[raises |-> TRUE, strLen |-> 0]}
            \cup {[raises |-> FALSE, strLen |-> n] :
                    n \in {ValueLimit - 1, ValueLimit, ValueLimit + 1}}
        objects ==
            {[kind |-> "class", attrs |-> a, doc |-> Str(FormatLit.class \o <<"a", Backtick>>),
              str |-> noStr] : a \in attrLists}
            \cup {[kind |-> "function", attrs |-> <<>>, doc |-> d, str |-> noStr] :
                    d \in MemberDocs}
            \cup {[kind |-> "other", attrs |-> <<>>, doc |-> NoText, str |-> o] :
                    o \in strOutcomes}
    IN  {[name |-> MemberNames[k], obj |-> o] : k \in 1..Len(MemberNames), o \in objects}

\* inspect.getmembers(module): up to MaxMembers members, sorted by name
MemberLists ==
    LET Rank(name) == CHOOSE k \in 1..Len(MemberNames) : MemberNames[k] = name
    IN  {q \in SeqsUpTo(Members, MaxMembers) :
            \A k \in 1..(Len(q) - 1) : Rank(q[k].name) < Rank(q[k + 1].name)}

\* format_docstring(inspect.getdoc(obj) or "No documentation available"),
\* for each docstring a member can have
FormattedDocstring ==
    [doc \in MemberDocs |->
        FormatDocstring(IF doc.none \/ doc.s = <<>> THEN Str(FormatLit.no_documentation)
                        ELSE doc)]

\* Methods without the test of the leading underscore
RECURSIVE MethodsUnfiltered(_)
MethodsUnfiltered(attrs) ==
    IF attrs = <<>> THEN <<>>
    ELSE (IF Head(attrs).isfunction
          THEN <<[name |-> Head(attrs).name, docstring |-> FormattedDocstring[NoText]]>>
          ELSE <<>>)
         \o MethodsUnfiltered(Tail(attrs))

RECURSIVE Methods(_)
\* for method_name, method_obj in inspect.getmembers(obj, inspect.isfunction)
Methods(attrs) ==
    IF attrs = <<>> THEN <<>>
    ELSE (IF Head(attrs).isfunction /\ ~StartsWith(Head(attrs).name, "_")
          THEN <<[name |-> Head(attrs).name, docstring |-> FormattedDocstring[NoText]]>>
          ELSE <<>>)
         \o Methods(Tail(attrs))

\* str(obj) if len(str(obj)) < 1000 else str(obj)[:1000] + "..." :
\* the number of characters of str(obj) kept, and whether "..." follows
ConstantValue(strLen) ==
    IF strLen < ValueLimit THEN [kept |-> strLen, ellipsis |-> FALSE]
    ELSE [kept |-> IF strLen < ValueLimit THEN strLen ELSE ValueLimit, ellipsis |-> TRUE]

RECURSIVE Describe(_, _)
\* the loop over inspect.getmembers(module)
Describe(members, acc) ==
    IF members = <<>> THEN acc
    ELSE LET name == Head(members).name
             obj == Head(members).obj
             formatted_docstring == FormattedDocstring[obj.doc]
             next ==
                IF StartsWith(name, "_") THEN acc
                ELSE IF obj.kind = "class"
                THEN [acc EXCEPT !.classes = Append(@,
                        [name |-> name, docstring |-> formatted_docstring,
                         methods |-> Methods(obj.attrs)])]
                ELSE IF obj.kind = "function"
                THEN [acc EXCEPT !.functions = Append(@,
                        [name |-> name, docstring |-> formatted_docstring])]
                ELSE IF obj.str.raises THEN acc
                ELSE [acc EXCEPT !.constants = Append(@,
                        [name |-> name, value |-> ConstantValue(obj.str.strLen)])]
         IN  Describe(Tail(members), next)

\* Metadata with the normalized name in place of the requested one
MetadataNormalized(library_name, normalized_name, meta) ==
    IF meta.normalized
    THEN [name |-> normalized_name, version |-> <<"version of", normalized_name>>]
    ELSE IF meta.literal
    THEN [name |-> normalized_name, version |-> <<"version of", library_name>>]
    ELSE [name |-> normalized_name, version |-> <<"Unknown">>]

\* the nested try/except that builds metadata: importlib.metadata knows
\* the normalized name, or the literal one, or neither
Metadata(library_name, normalized_name, meta) ==
    IF meta.normalized
    THEN [name |-> library_name, version |-> <<"version of", normalized_name>>]
    ELSE IF meta.literal
    THEN [name |-> library_name, version |-> <<"version of", library_name>>]
    ELSE [name |-> library_name, version |-> <<"Unknown">>]

\* the names given to importlib.import_module, in order
ImportAttempts(library_name) ==
    IF ImportModule(Lower(library_name)).exc = "ImportError"
    THEN <<Lower(library_name), library_name>>
    ELSE <<Lower(library_name)>>

\* the except clauses that end get_library_info
InfoExceptionResponse(exc, tried) ==
    [code |-> IF exc = "ImportError" THEN 404 ELSE 500,
     status |-> "error",
     message |-> IF exc = "ImportError" THEN "not_found" ELSE "error_accessing",
     tried |-> tried,
     metadata |-> [name |-> "", version |-> <<>>],
     lists |-> [classes |-> <<>>, functions |-> <<>>, constants |-> <<>>]]

InfoOutcome(library_name, env) ==
    LET load == LoadModule(library_name)
        tried == ImportAttempts(library_name)
    IN  IF load.exc # "none" THEN InfoExceptionResponse(load.exc, tried)
        ELSE IF env.enum # "ok" THEN InfoExceptionResponse(env.enum, tried)
        ELSE [code |-> 200, status |-> "success", message |-> "", tried |-> tried,
              metadata |-> Metadata(library_name, Lower(library_name), env.meta),
              lists |-> Describe(env.members,
                                 [classes |-> <<>>, functions |-> <<>>, constants |-> <<>>])]

\* every library name; for one that loads: every outcome of the metadata
\* lookups, with a module that has members only when both lookups fail,
\* every module of up to MaxMembers members, and an enumeration
\* (inspect.getmembers, inspect.getdoc) that raises
InitInfo ==
    LET Env(members, enum, meta) == [members |-> members, enum |-> enum, meta |-> meta]
        noMeta == [normalized |-> FALSE, literal |-> FALSE]
    IN  /\ IdleExcept({"info"})
        /\ pc = "pending"
        /\ \E lib \in LibraryNames :
            \/ /\ LoadModule(lib).exc # "none"
               /\ infoCall = [library_name |-> lib, env |-> Env(<<>>, "ok", noMeta)]
            \/ /\ LoadModule(lib).exc = "none"
               /\ \/ \E meta \in [normalized : BOOLEAN, literal : BOOLEAN] :
                        infoCall = [library_name |-> lib, env |-> Env(<<>>, "ok", meta)]
                  \/ \E q \in MemberLists :
                        infoCall = [library_name |-> lib, env |-> Env(q, "ok", noMeta)]
                  \/ \E x \in {"Exception", "ImportError"} :
                        infoCall = [library_name |-> lib, env |-> Env(<<>>, x, noMeta)]
        /\ infoResp = Idle.infoResp

GetLibraryInfo ==
    /\ pc = "pending"
    /\ infoResp' = InfoOutcome(infoCall.library_name, infoCall.env)
    /\ pc' = "done"
    /\ UNCHANGED <<exVars, srcVars, otherVars, infoCall, docstring, formatted, text, examples,
                   pypiCall, pypiResp, disk, reqs, fetch>>

SpecInfo == InitInfo /\ [][GetLibraryInfo]_vars

----------------------------------------------------------------------------
(* search_pypi *)

\* the literals of the placeholder record's name
PypiLit ==
    [search_for |-> <<"S", "e", "a", "r", "c", "h", " ", "f", "o", "r", " ", "'">>,
     failed |-> <<"'", " ", "f", "a", "i", "l", "e", "d">>]

\* str.lower(), for the letters the names are written with
LowerStr(s) == [k \in DOMAIN s |-> IF s[k] = "A" THEN "a" ELSE s[k]]

\* a < b for two strings, character by character in code point order
StrLess(a, b) ==
    LET order == <<"A", "a", "b", "x", "y">>
        Rank(c) == CHOOSE k \in 1..Len(order) : order[k] = c
    IN  \E k \in 1..Len(b) :
            /\ \A j \in 1..(k - 1) : j <= Len(a) /\ a[j] = b[j]
            /\ k > Len(a) \/ Rank(a[k]) < Rank(b[k])

\* list.sort(), which is stable: results.sort by relevance, the highest
\* first, or by lowercase name, and matching_packages.sort() by name
SortedBy(s, key) ==
    LET Before(x, y) ==
            CASE key = "relevance" -> x.relevance > y.relevance
              [] key = "name" -> StrLess(LowerStr(x.name), LowerStr(y.name))
              [] OTHER -> StrLess(x.name, y.name)
        Place(k) ==
            1 + Cardinality({j \in DOMAIN s :
                                \/ Before(s[j], s[k])
                                \/ j < k /\ ~Before(s[k], s[j])})
    IN  [p \in DOMAIN s |-> s[CHOOSE k \in DOMAIN s : Place(k) = p]]

\* the relevance score computed from the query and a name
Relevance(query, name) ==
    LET q == LowerStr(query)
        lower == LowerStr(name)
        places == {i \in 1..Len(lower) : HasAt(lower, i, q)}
        position == Least(places) - 1
    IN  IF q = lower THEN ExactRelevance
        ELSE IF places # {}
        THEN SubstringRelevance - (IF position < OffsetCap THEN position ELSE OffsetCap)
        ELSE NoMatchRelevance

\* one record of the packages list, with the strategy that produced it
Package(name, relevance, via) == [name |-> name, relevance |-> relevance, via |-> via]

\* any(p.get('name', '').lower() == name.lower() for p in results)
HasPackage(results, name) ==
    \E k \in DOMAIN results : LowerStr(results[k].name) = LowerStr(name)

\* DirectLookup without the test of the status code
DirectLookupAnyStatus(query, direct) ==
    IF direct.kind # "raises"
    THEN <<Package(IF direct.name = <<>> THEN query ELSE direct.name,
                   ExactRelevance, "direct")>>
    ELSE <<>>

\* the direct lookup, done for a query of one word
DirectLookup(query, direct) ==
    IF direct.kind = "ok"
    THEN <<Package(IF direct.name = <<>> THEN query ELSE direct.name,
                   ExactRelevance, "direct")>>
    ELSE <<>>

RECURSIVE IndexDetails(_, _, _)
\* the loop over the page of matching index names, each with the answer to
\* the request for its details
IndexDetails(entries, query, results) ==
    IF entries = <<>> THEN results
    ELSE LET name == Head(entries).name
             detail == Head(entries).detail
             next ==
                IF HasPackage(results, name) THEN results
                ELSE IF detail = "ok"
                THEN Append(results, Package(name, Relevance(query, name), "index"))
                ELSE IF detail = "raises"
                THEN Append(results, Package(name, BasicRelevance, "basic"))
                ELSE results
         IN  IndexDetails(Tail(entries), query, next)

\* the scan of the simple index: the matching names, their number, and the
\* results after the details of one page of them were fetched
IndexScan(args, query, results) ==
    LET entries == args.env.index.entries
        matching_packages ==
            SelectSeq(entries,
                LAMBDA e : LET lower == LowerStr(e.name)
                           IN  /\ \E i \in 1..Len(lower) : HasAt(lower, i, query)
                               /\ args.exact_match => lower = query)
        sorted ==
            IF args.sort_by = "name"
            THEN SortedBy(matching_packages, "index name")
            ELSE matching_packages
        start_idx == (args.page.n - 1) * args.per_page.n
        end_idx ==
            IF start_idx + args.per_page.n < Len(sorted) THEN start_idx + args.per_page.n
            ELSE Len(sorted)
    IN  IF args.env.index.kind = "ok"
        THEN [total_results |-> Len(matching_packages),
              results |-> IndexDetails(Slice(sorted, start_idx + 1, end_idx), query, results)]
        ELSE [total_results |-> 0, results |-> results]

RECURSIVE Scrape(_, _, _, _)
\* the loop over the first per_page names of the search page
Scrape(names, query, exact_match, results) ==
    IF names = <<>> THEN results
    ELSE LET name == Head(names)
             next ==
                IF exact_match /\ LowerStr(name) # query THEN results
                ELSE IF HasPackage(results, name) THEN results
                ELSE Append(results, Package(name, Relevance(query, name), "scrape"))
         IN  Scrape(Tail(names), query, exact_match, next)

\* int() raises ValueError before the try: the framework answers 500
PypiOutcome(args) ==
    LET query == LowerStr(args.q)
        blanks == {k \in DOMAIN query : In(query[k], "space")}
        \* len(query.split()) == 1
        one_word == blanks = {}
        direct == IF one_word THEN DirectLookup(query, args.env.direct) ELSE <<>>
        index == IndexScan(args, query, direct)
        scrape ==
            IF index.results # <<>> \/ args.env.scrape.kind # "ok" THEN index.results
            ELSE Scrape(Take(args.env.scrape.names, args.per_page.n), query,
                        args.exact_match, <<>>)
        attempted ==
            (IF one_word THEN <<"direct">> ELSE <<>>) \o <<"index">>
            \o (IF index.results = <<>> THEN <<"scrape">> ELSE <<>>)
        results ==
            IF scrape = <<>>
            THEN <<Package(PypiLit.search_for \o query \o PypiLit.failed,
                           PlaceholderRelevance, "placeholder")>>
            ELSE IF args.sort_by = "relevance"
            THEN SortedBy(scrape, "relevance")
            ELSE IF args.sort_by = "name"
            THEN SortedBy(scrape, "name")
            ELSE scrape
        total_results == IF index.total_results = 0 THEN Len(results) ELSE index.total_results
        total_pages == (total_results + args.per_page.n - 1) \div args.per_page.n
    IN  IF ~args.page.int \/ ~args.per_page.int
        THEN [code |-> 500, status |-> "", packages |-> <<>>, total |-> 0,
              page |-> 0, pages |-> 0, attempted |-> <<>>]
        ELSE IF query = <<>>
        THEN [code |-> 400, status |-> "error", packages |-> <<>>, total |-> 0,
              page |-> 0, pages |-> 0, attempted |-> <<>>]
        ELSE IF args.per_page.n = 0
        THEN [code |-> 200, status |-> "error", packages |-> <<>>, total |-> 0,
              page |-> 1, pages |-> 1, attempted |-> attempted]
        ELSE [code |-> 200, status |-> "success", packages |-> results,
              total |-> total_results, page |-> args.page.n,
              pages |-> IF total_pages > 1 THEN total_pages ELSE 1,
              attempted |-> attempted]

\* the query "ab" on its first page, with every answer of the registry: to
\* the direct lookup, to the request for the simple index (up to MaxIndex
\* names in order, each with the answer to the request for its details) and
\* to the request for the search page; and every query, page, page size,
\* order and filter, with a few answers.  The names: one equal to the query
\* but for its case, one that holds it at offset 1, one that does not hold
\* it, one that holds it beyond the offset the score is capped at
InitPypi ==
    LET Ab == <<"A", "b">>
        xab == <<"x", "a", "b">>
        xy == <<"x", "y">>
        long == [k \in 1..(OffsetCap + 1) |-> "x"] \o <<"a", "b">>
        Env(direct, index, scrape) == [direct |-> direct, index |-> index, scrape |-> scrape]
        down == [kind |-> "raises", name |-> <<>>, entries |-> <<>>, names |-> <<>>]
        refused == [kind |-> "status", name |-> <<>>, entries |-> <<>>, names |-> <<>>]
        directAnswers ==
            {down, refused, [kind |-> "ok", name |-> <<>>], [kind |-> "ok", name |-> Ab]}
        indexAnswers ==
            {down, refused}
            \cup {[kind |-> "ok", entries |-> q] :
                    q \in {e \in SeqsUpTo([name : {Ab, xab, xy, long},
                                           detail : {"raises", "status", "ok"}], MaxIndex) :
                              \A i, j \in DOMAIN e : i # j => e[i].name # e[j].name}}
        scrapeAnswers ==
            {down, refused, [kind |-> "ok", names |-> <<>>],
             [kind |-> "ok", names |-> <<xy, Ab>>],
             [kind |-> "ok", names |-> <<xab, xab, xy>>]}
        listed ==
            [kind |-> "ok", entries |-> <<[name |-> xab, detail |-> "ok"],
                                         [name |-> Ab, detail |-> "ok"]>>]
        fewEnvs ==
            {Env(down, down, down), Env([kind |-> "ok", name |-> Ab], listed, down),
             Env(down, listed, down), Env(down, down, [kind |-> "ok", names |-> <<xy, Ab>>])}
        \* the argument of int(): an integer of S, or a string that is none
        IntArgs(S) == {[int |-> FALSE, n |-> 0]} \cup {[int |-> TRUE, n |-> n] : n \in S}
    IN  /\ IdleExcept({"pypi"})
        /\ pc = "pending"
        /\ \/ \E d \in directAnswers, i \in indexAnswers, s \in scrapeAnswers,
                per_page \in 1..MaxPerPage :
                pypiCall = [q |-> <<"a", "b">>, page |-> [int |-> TRUE, n |-> 1],
                            per_page |-> [int |-> TRUE, n |-> per_page],
                            sort_by |-> "relevance", exact_match |-> FALSE,
                            env |-> Env(d, i, s)]
           \/ \E q \in {<<>>, Ab, <<"a", " ", "b">>, <<"x">>},
                page \in IntArgs(1..MaxPage), per_page \in IntArgs(0..MaxPerPage),
                sort_by \in {"relevance", "popularity", "name", "date"},
                exact_match \in BOOLEAN, env \in fewEnvs :
                pypiCall = [q |-> q, page |-> page, per_page |-> per_page,
                            sort_by |-> sort_by, exact_match |-> exact_match, env |-> env]
        /\ pypiResp = Idle.pypiResp

SearchPypi ==
    /\ pc = "pending"
    /\ pypiResp' = PypiOutcome(pypiCall)
    /\ pc' = "done"
    /\ UNCHANGED <<exVars, srcVars, otherVars, infoCall, infoResp, docstring, formatted, text,
                   examples, pypiCall, disk, reqs, fetch>>

SpecPypi == InitPypi /\ [][SearchPypi]_vars

----------------------------------------------------------------------------
(* Two get_library_examples requests for one library at the same time.  The *)
(* cache file is a sequence of blocks, a block being what one flush of the  *)
(* file buffer writes; each request that writes has its own file offset.    *)

\* the requests that run at the same time, by number
Racers == {1, 2}

\* json.dump(result, f) of request r: the blocks it writes, in order
Payload(r, len) == [k \in 1..len |-> [writer |-> r, k |-> k]]

\* the file holds all of the payload of one request and nothing else
Complete(blocks) ==
    /\ blocks # <<>>
    /\ \E r \in Racers : blocks = Payload(r, Len(blocks)) /\ Len(blocks) = reqs[r].len

\* write(block) at a file offset: the blocks already there are overwritten,
\* a gap left by a truncation is filled with zeros
WriteAt(blocks, offset, block) ==
    [k \in 1..(IF offset + 1 > Len(blocks) THEN offset + 1 ELSE Len(blocks)) |->
        IF k = offset + 1 THEN block
        ELSE IF k <= Len(blocks) THEN blocks[k]
        ELSE [writer |-> 0, k |-> 0]]

\* no cache file; every request is about to begin, with a payload of up to
\* MaxChunks blocks to write if it builds one
InitRace ==
    /\ IdleExcept({"race"})
    /\ pc = "idle"
    /\ disk = [exists |-> FALSE, blocks |-> <<>>]
    /\ \E lens \in [Racers -> 1..MaxChunks] :
            reqs = [r \in Racers |->
                        [at |-> "check", len |-> lens[r], offset |-> 0,
                         resp |-> "none", body |-> <<>>]]

\* if cache_file.exists():
CheckExists(r) ==
    /\ reqs[r].at = "check"
    /\ reqs' = [reqs EXCEPT ![r].at = IF disk.exists THEN "read" ELSE "build"]
    /\ UNCHANGED disk

\* json.load(f): the file as it is now; what is not a complete payload
\* does not parse, and the exception makes the request go on as for a miss
ReadCache(r) ==
    /\ reqs[r].at = "read"
    /\ reqs' = [reqs EXCEPT ![r] =
                    IF Complete(disk.blocks)
                    THEN [@ EXCEPT !.at = "done", !.resp = "cached", !.body = disk.blocks]
                    ELSE [@ EXCEPT !.at = "build"]]
    /\ UNCHANGED disk

\* the examples are gathered and result is built
BuildResult(r) ==
    /\ reqs[r].at = "build"
    /\ reqs' = [reqs EXCEPT ![r].at = "open", ![r].body = Payload(r, reqs[r].len)]
    /\ UNCHANGED disk

\* open(cache_file, 'w'): the file is created or truncated
OpenForWrite(r) ==
    /\ reqs[r].at = "open"
    /\ disk' = [exists |-> TRUE, blocks |-> <<>>]
    /\ reqs' = [reqs EXCEPT ![r].at = "write", ![r].offset = 0]

\* one block of json.dump reaches the file; after the last one the file is
\* closed and jsonify(result) is returned
WriteBlock(r) ==
    /\ reqs[r].at = "write"
    /\ disk' = [disk EXCEPT !.blocks =
                    WriteAt(@, reqs[r].offset, reqs[r].body[reqs[r].offset + 1])]
    /\ reqs' = [reqs EXCEPT ![r] =
                    IF @.offset + 1 = @.len
                    THEN [@ EXCEPT !.offset = @ + 1, !.at = "done", !.resp = "built"]
                    ELSE [@ EXCEPT !.offset = @ + 1]]

NextRace ==
    \E r \in Racers :
        /\ \/ CheckExists(r)
           \/ ReadCache(r)
           \/ BuildResult(r)
           \/ OpenForWrite(r)
           \/ WriteBlock(r)
        /\ UNCHANGED <<exVars, pc, srcVars, otherVars, infoCall, infoResp, docstring,
                       formatted, text, examples, pypiCall, pypiResp, fetch>>

SpecRace == InitRace /\ [][NextRace]_vars

----------------------------------------------------------------------------
(* The requests for the files of the code-search results, one request of   *)
(* get_library_examples, with the number of them that are under way        *)

\* the code search has answered with up to MaxResults items, or has failed
InitFetch ==
    /\ IdleExcept({"fetch"})
    /\ pc = "idle"
    /\ \E search \in {"ok", "status", "raises"}, n \in 0..MaxResults :
            /\ search # "ok" => n = 0
            /\ fetch = [at |-> "search", search |-> search, items |-> n, i |-> 0,
                        inFlight |-> 0, peak |-> 0, outcomes |-> <<>>]

\* if response.status_code == 200: the loop is entered
SearchAnswered ==
    /\ fetch.at = "search"
    /\ fetch' = [fetch EXCEPT !.at = IF fetch.search = "ok" THEN "loop" ELSE "done"]

\* for item in data.get('items', [])[:5]: requests.get(content_url) is
\* called for the next item, in the thread of the request
StartFetch ==
    /\ fetch.at = "loop"
    /\ fetch.inFlight = 0
    /\ fetch.i < fetch.items /\ fetch.i < ItemLimit
    /\ fetch' = [fetch EXCEPT !.inFlight = @ + 1,
                              !.peak = IF @ < fetch.inFlight + 1 THEN fetch.inFlight + 1 ELSE @]

\* requests.get returns or raises, and the body of the loop ends
FinishFetch ==
    /\ fetch.at = "loop"
    /\ fetch.inFlight > 0
    /\ \E outcome \in {"ok", "status", "raises"} :
            fetch' = [fetch EXCEPT !.inFlight = @ - 1, !.i = @ + 1,
                                   !.outcomes = Append(@, outcome)]

\* the loop has gone through the items
EndLoop ==
    /\ fetch.at = "loop"
    /\ fetch.inFlight = 0
    /\ ~(fetch.i < fetch.items /\ fetch.i < ItemLimit)
    /\ fetch' = [fetch EXCEPT !.at = "done"]

NextFetch ==
    /\ SearchAnswered \/ StartFetch \/ FinishFetch \/ EndLoop
    /\ UNCHANGED <<exVars, pc, srcVars, otherVars, infoCall, infoResp, docstring, formatted, text,
                   examples, pypiCall, pypiResp, disk, reqs>>

SpecFetch == InitFetch /\ [][NextFetch]_vars

----------------------------------------------------------------------------
(* extract_relevant_code *)

\* the string literals of extract_relevant_code
RelevantLit ==
    [import |-> <<"i", "m", "p", "o", "r", "t", " ">>,
     from |-> <<"f", "r", "o", "m", " ">>,
     import_after |-> <<" ", "i", "m", "p", "o", "r", "t">>,
     truncated |-> <<"\n">> \o <<"#", " ", ".", ".", ".", " ", "(", "t", "r", "u", "n", "c", "a", "t", "e", "d", ")", " ", ".", ".", ".">>]

RECURSIVE JoinSnippets(_)
\* '\n\n'.join(relevant_snippets)
JoinSnippets(snippets) ==
    IF snippets = <<>> THEN <<>>
    ELSE IF Len(snippets) = 1 THEN snippets[1]
    ELSE snippets[1] \o <<"\n", "\n">> \o JoinSnippets(Tail(snippets))

ExtractRelevantCode(file_content, library_name) ==
    LET lines == SplitLines(file_content)
        Contains(line, pattern) == \E i \in 1..Len(line) : HasAt(line, i, pattern)
        \* the 0-based indexes of the lines that import the library
        imports ==
            {i \in 0..(Len(lines) - 1) :
                \/ Contains(lines[i + 1], RelevantLit.import \o library_name)
                \/ Contains(lines[i + 1],
                            RelevantLit.from \o library_name \o RelevantLit.import_after)}
        usages == {i \in 0..(Len(lines) - 1) : Contains(lines[i + 1], library_name \o <<".">>)}
        import_lines == IF imports # {} THEN imports ELSE usages
        Snippet(import_line) ==
            LET start_line == IF import_line - LinesBefore > 0 THEN import_line - LinesBefore
                              ELSE 0
                end_line == IF Len(lines) < import_line + LinesAfter THEN Len(lines)
                            ELSE import_line + LinesAfter
            IN  JoinLines(Slice(lines, start_line + 1, end_line))
        \* the snippets in the order of the lines
        Ordered(S) ==
            [k \in 1..Cardinality(S) |->
                CHOOSE i \in S : Cardinality({j \in S : j < i}) = k - 1]
        combined == JoinSnippets([k \in 1..Cardinality(import_lines) |->
                                    Snippet(Ordered(import_lines)[k])])
    IN  IF import_lines = {} THEN NoText
        ELSE IF Len(combined) > SnippetLimit
        THEN Str(SubSeq(combined, 1, SnippetLimit) \o RelevantLit.truncated)
        ELSE Str(combined)

\* files for the library "np": up to MaxBefore plain lines, a line of one
\* of four kinds, up to MaxAfter plain lines, and then nothing, or another
\* line of one of the kinds; and a file with a line longer than the limit
InitRelevant ==
    LET np == <<"n", "p">>
        digits == <<"0", "1", "2", "3", "4", "5", "6", "7", "8", "9">>
        \* the k-th line of a file that does not name the library
        PlainLine(k) == <<"v", digits[((k \div 10) % 10) + 1], digits[(k % 10) + 1]>>
        kinds ==
            {RelevantLit.import \o np, RelevantLit.from \o np \o RelevantLit.import_after,
             <<"y", "=">> \o np \o <<".", "f">>, <<"p", "a", "s", "s">>}
        Plain(from, n) == [k \in 1..n |-> PlainLine(from + k - 1)]
        File(lines) == JoinLines(lines)
    IN  /\ IdleExcept({"relevant"})
        /\ pc = "pending"
        /\ \/ \E before \in 0..MaxBefore, after \in 0..MaxAfter, first \in kinds,
                last \in kinds \cup {<<>>} :
                fileCall =
                    [file_content |->
                        File(Plain(0, before) \o <<first>> \o Plain(before, after)
                             \o (IF last = <<>> THEN <<>> ELSE <<last>>)),
                     library_name |-> np]
           \/ \E first \in kinds :
                fileCall =
                    [file_content |->
                        File(<<first, [k \in 1..(SnippetLimit + 1) |-> "x"]>>),
                     library_name |-> np]
        /\ snippet = NoText

Relevant ==
    /\ pc = "pending"
    /\ snippet' = ExtractRelevantCode(fileCall.file_content, fileCall.library_name)
    /\ pc' = "done"
    /\ UNCHANGED <<exVars, srcVars, infoCall, infoResp, docstring, formatted, text,
                   examples, pypiCall, pypiResp, disk, reqs, fetch, fileCall, askCall,
                   askResp>>

SpecRelevant == InitRelevant /\ [][Relevant]_vars

----------------------------------------------------------------------------
(* assistant.py: categorize_query and answer_library_question *)

\* LIBRARY_CATEGORIES in the order of the dictionary; a keyword phrase is the
\* sequence of its characters
LIBRARY_CATEGORIES ==
    <<[category |-> "ai",
      keywords |->
        <<
            <<"m", "a", "c", "h", "i", "n", "e", " ", "l", "e", "a", "r", "n", "i", "n", "g">>,
            <<"d", "e", "e", "p", " ", "l", "e", "a", "r", "n", "i", "n", "g">>,
            <<"n", "e", "u", "r", "a", "l", " ", "n", "e", "t", "w", "o", "r", "k", "s">>,
            <<"n", "l", "p">>,
            <<"c", "o", "m", "p", "u", "t", "e", "r", " ", "v", "i", "s", "i", "o", "n">>,
            <<"a", "i">>
        >>],
     [category |-> "data_science",
      keywords |->
        <<
            <<"d", "a", "t", "a", " ", "a", "n", "a", "l", "y", "s", "i", "s">>,
            <<"s", "t", "a", "t", "i", "s", "t", "i", "c", "s">>,
            <<"v", "i", "s", "u", "a", "l", "i", "z", "a", "t", "i", "o", "n">>,
            <<"d", "a", "t", "a", " ", "p", "r", "o", "c", "e", "s", "s", "i", "n", "g">>,
            <<"d", "a", "t", "a", "f", "r", "a", "m", "e", "s">>
        >>],
     [category |-> "web",
      keywords |->
        <<
            <<"w", "e", "b", " ", "f", "r", "a", "m", "e", "w", "o", "r", "k">>,
            <<"h", "t", "t", "p">>,
            <<"a", "p", "i">>,
            <<"r", "e", "s", "t">>,
            <<"g", "r", "a", "p", "h", "q", "l">>,
            <<"a", "s", "y", "n", "c">>
        >>],
     [category |-> "database",
      keywords |->
        <<
            <<"d", "a", "t", "a", "b", "a", "s", "e">>,
            <<"s", "q", "l">>,
            <<"n", "o", "s", "q", "l">>,
            <<"o", "r", "m">>,
            <<"d", "a", "t", "a", " ", "s", "t", "o", "r", "a", "g", "e">>
        >>],
     [category |-> "networking",
      keywords |->
        <<
            <<"n", "e", "t", "w", "o", "r", "k", "i", "n", "g">>,
            <<"s", "o", "c", "k", "e", "t", "s">>,
            <<"p", "r", "o", "t", "o", "c", "o", "l">>,
            <<"r", "e", "q", "u", "e", "s", "t", "s">>
        >>],
     [category |-> "security",
      keywords |->
        <<
            <<"s", "e", "c", "u", "r", "i", "t", "y">>,
            <<"a", "u", "t", "h", "e", "n", "t", "i", "c", "a", "t", "i", "o", "n">>,
            <<"e", "n", "c", "r", "y", "p", "t", "i", "o", "n">>,
            <<"h", "a", "s", "h", "i", "n", "g">>,
            <<"l", "o", "g", "i", "n">>,
            <<"u", "s", "e", "r", " ", "m", "a", "n", "a", "g", "e", "m", "e", "n", "t">>
        >>],
     [category |-> "testing",
      keywords |->
        <<
            <<"t", "e", "s", "t", "i", "n", "g">>,
            <<"t", "e", "s", "t", " ", "f", "r", "a", "m", "e", "w", "o", "r", "k">>,
            <<"m", "o", "c", "k", "i", "n", "g">>,
            <<"a", "s", "s", "e", "r", "t", "i", "o", "n", "s">>,
            <<"c", "o", "v", "e", "r", "a", "g", "e">>
        >>],
     [category |-> "ui",
      keywords |->
        <<
            <<"u", "i">>,
            <<"g", "u", "i">>,
            <<"i", "n", "t", "e", "r", "f", "a", "c", "e">>,
            <<"w", "i", "d", "g", "e", "t", "s">>,
            <<"d", "a", "s", "h", "b", "o", "a", "r", "d">>
        >>]>>

\* COMMON_LIBRARIES: the names of the entries of each category that has any
COMMON_LIBRARIES ==
    [ai |->
        <<"tensorflow", "pytorch", "scikit-learn", "huggingface-transformers", "keras", "spacy", "nltk", "fastai", "opencv-python", "gensim">>,
     data_science |->
        <<"pandas", "numpy", "matplotlib", "seaborn", "scipy", "plotly", "statsmodels", "dask">>,
     web |->
        <<"flask", "django", "fastapi", "tornado", "bottle", "pyramid", "starlette">>,
     database |->
        <<"sqlalchemy", "pymongo", "psycopg2", "peewee", "redis-py", "pymysql", "elasticsearch-py">>,
     security |->
        <<"authlib", "passlib", "pyjwt", "cryptography", "flask-login", "django-allauth", "bcrypt">>,
     testing |->
        <<"pytest", "unittest", "nose2", "mock", "hypothesis">>,
     ui |->
        <<"tkinter", "pyqt5", "pyside2", "wxpython", "dash", "streamlit", "gradio">>]

\* the number of a category's keyword phrases that occur in the query:
\* scores[category] += 1 for every keyword with keyword in query
ScoreOnce(query, keywords) ==
    IF \E k \in DOMAIN keywords : \E i \in 1..Len(query) : HasAt(query, i, keywords[k])
    THEN 1 ELSE 0

Score(query, keywords) ==
    Cardinality({k \in DOMAIN keywords :
                    \E i \in 1..Len(query) : HasAt(query, i, keywords[k])})

\* categorize_query: the categories that score, as <<category, score>> pairs
CategorizeQuery(query) ==
    LET \* query.lower(), for the capital letters the questions are written with
        lower ==
            [k \in DOMAIN query |->
                CASE query[k] = "I" -> "i"
                  [] query[k] = "L" -> "l"
                  [] query[k] = "Q" -> "q"
                  [] query[k] = "S" -> "s"
                  [] query[k] = "U" -> "u"
                  [] OTHER -> query[k]]
        score == [k \in DOMAIN LIBRARY_CATEGORIES |->
                    Score(lower, LIBRARY_CATEGORIES[k].keywords)]
        \* scores.items(): a category enters the dictionary when it first scores
        scored == SelectSeq([k \in DOMAIN LIBRARY_CATEGORIES |-> k], LAMBDA k : score[k] > 0)
        items == [p \in DOMAIN scored |->
                    <<LIBRARY_CATEGORIES[scored[p]].category, score[scored[p]]>>]
        \* sorted(..., key=lambda x: x[1], reverse=True) is stable
        Place(k) ==
            1 + Cardinality({j \in DOMAIN items :
                                \/ items[j][2] > items[k][2]
                                \/ items[j][2] = items[k][2] /\ j < k})
    IN  [p \in DOMAIN items |-> items[CHOOSE k \in DOMAIN items : Place(k) = p]]

\* the search results appended one by one to the libraries, skipping the names
\* that are already there
TopUpAll(libraries, search_results) == libraries \o search_results

TopUp(libraries, search_results) ==
    LET Grow[k \in 0..Len(search_results)] ==
            IF k = 0 THEN libraries
            ELSE LET sofar == Grow[k - 1]
                 IN  IF \E j \in DOMAIN sofar : sofar[j].name = search_results[k].name
                     THEN sofar
                     ELSE Append(sofar, search_results[k])
    IN  Grow[Len(search_results)]

\* answer_library_question, with the registry's answer to the search request;
\* a library is its name and where the entry came from
AnswerLibraryQuestion(query, registry) ==
    LET categories == CategorizeQuery(query)
        \* search_pypi(query): no results unless the registry answers with 200
        search_results ==
            IF registry.kind = "ok" /\ registry.status_code = 200
            THEN [k \in 1..Len(Take(registry.names, DefaultMaxResults)) |->
                    [name |-> registry.names[k], from |-> "registry"]]
            ELSE <<>>
        top == Take(categories, TopCategories)
        \* category.replace('_', ' ')
        Spaced(category) == IF category = "data_science" THEN "data science" ELSE category
        category_names == [k \in DOMAIN top |-> Spaced(top[k][1])]
        Catalog(category) ==
            IF category \in DOMAIN COMMON_LIBRARIES
            THEN [k \in DOMAIN COMMON_LIBRARIES[category] |->
                    [name |-> COMMON_LIBRARIES[category][k], from |-> "catalog"]]
            ELSE <<>>
        Extend[k \in 0..Len(top)] ==
            IF k = 0 THEN <<>> ELSE Extend[k - 1] \o Catalog(top[k][1])
        libraries == Extend[Len(top)]
        supplemented ==
            IF Len(libraries) < MinLibraries THEN TopUp(libraries, search_results)
            ELSE libraries
    IN  IF categories = <<>>
        THEN [query |-> query,
              libraries |-> Take(search_results, FallbackLimit),
              message |-> [about |-> "query", query |-> query, categories |-> <<>>]]
        ELSE [query |-> query,
              libraries |-> Take(supplemented, LibraryLimit),
              message |-> [about |-> "categories", query |-> <<>>,
                           categories |-> category_names]]

\* questions of up to MaxWords words with every registry answer of three, and
\* three questions with every registry answer: an exception, a status other
\* than 200, up to MaxFound distinct names, and names listed twice
InitAsk ==
    LET words ==
            {<<"a", "i">>, <<"S", "Q", "L">>, <<"n", "o", "s", "q", "l">>, <<"U", "I">>,
             <<"r", "e", "q", "u", "e", "s", "t", "s">>,
             <<"d", "a", "t", "a", "f", "r", "a", "m", "e", "s">>, <<"x">>}
        pool ==
            <<"pkg01", "pkg02", "pkg03", "pkg04", "pkg05", "pkg06", "pkg07", "pkg08",
              "pkg09", "pkg10", "pkg11", "pkg12", "pkg13", "pkg14", "pkg15", "pkg16",
              "pkg17", "pkg18", "pkg19", "pkg20", "pkg21", "pkg22", "pkg23", "pkg24">>
        Question[n \in 0..MaxWords] ==
            IF n = 0 THEN {<<>>}
            ELSE Question[n - 1]
                 \cup {q \o (IF q = <<>> THEN <<>> ELSE <<" ">>) \o w :
                        q \in Question[n - 1], w \in words}
        Found(n) == [kind |-> "ok", status_code |-> 200, names |-> Take(pool, n)]
        fails == [kind |-> "raises", status_code |-> 0, names |-> <<>>]
        answers ==
            {fails, [kind |-> "ok", status_code |-> 404, names |-> Take(pool, 3)],
             [kind |-> "ok", status_code |-> 200,
              names |-> <<"pkg01", "pkg02">> \o Take(pool, MaxFound)]}
            \cup {Found(n) : n \in 0..MaxFound}
    IN  /\ IdleExcept({"ask"})
        /\ pc = "pending"
        /\ \/ \E q \in Question[MaxWords], registry \in {fails, Found(3), Found(MaxFound)} :
                askCall = [query |-> q, registry |-> registry]
           \/ \E q \in {<<"x">>, <<"r", "e", "q", "u", "e", "s", "t", "s">>,
                        <<"U", "I">>},
                registry \in answers :
                askCall = [query |-> q, registry |-> registry]
        /\ askResp = Idle.askResp

Ask ==
    /\ pc = "pending"
    /\ askResp' = [categories |-> CategorizeQuery(askCall.query),
                   response |-> AnswerLibraryQuestion(askCall.query, askCall.registry)]
    /\ pc' = "done"
    /\ UNCHANGED <<exVars, srcVars, infoCall, infoResp, docstring, formatted, text,
                   examples, pypiCall, pypiResp, disk, reqs, fetch, fileCall, snippet,
                   askCall>>

SpecAsk == InitAsk /\ [][Ask]_vars

----------------------------------------------------------------------------
(* Properties of the cache, under Spec *)

\* the cache file of the requested library when the request arrived
PreFile == pre.cache[call.lib]

\* a cache file that json.load parses to an object whose timestamp is a
\* number or is missing (then read as 0)
Parseable(file) == file.kind = "dict" /\ file.payload.tsKind # "string"

StoredTimestamp(file) ==
    IF file.payload.tsKind = "int" THEN file.payload.timestamp ELSE 0

\* seconds (in ticks) between the stored timestamp and the request
AgeTicks == pre.clock - StoredTimestamp(PreFile) * TicksPerSec

\* C1: a parseable cache entry is reused iff its timestamp is strictly
\* greater than now - 604800: exactly 604800 seconds old it is regenerated,
\* 604799 seconds old it is returned.
C1_FreshIffYoungerThanAWeek ==
    (pc = "done" /\ Parseable(PreFile)) =>
        /\ (path = "hit") <=> (AgeTicks < CacheMaxAge * TicksPerSec)
        /\ (AgeTicks = CacheMaxAge * TicksPerSec) => path = "miss"
        /\ (AgeTicks = (CacheMaxAge - 1) * TicksPerSec) => path = "hit"

\* an entry exactly 604800 seconds old has been found stale and regenerated
C1_Witness ==
    /\ pc = "done"
    /\ PreFile.kind = "dict" /\ PreFile.payload.tsKind = "int"
    /\ AgeTicks = CacheMaxAge * TicksPerSec
    /\ path = "miss"

\* C2: on a fresh hit the cached payload is returned unchanged, nothing is
\* extracted, fetched or written, and the cache file is what it was.
C2_HitReturnsCacheUntouched ==
    (pc = "done" /\ path = "hit") =>
        /\ resp.code = 200
        /\ resp.body = PreFile.payload
        /\ did = {}
        /\ cache = pre.cache
        /\ cache[call.lib].payload.timestamp = PreFile.payload.timestamp

\* a request answered from an entry written by an earlier request
C2_Witness ==
    /\ pc = "done" /\ path = "hit"
    /\ PreFile.payload.status = "success"
    /\ PreFile.payload.timestamp * TicksPerSec < pre.clock
    /\ resp.body.examples # <<>>

\* a cache file that exists and cannot be read or parsed
Unusable(file) ==
    \/ file.kind \in DamagedKinds
    \/ file.kind = "dict" /\ file.payload.tsKind = "string"

\* C3: a cache file that cannot be read or parsed is a cache miss: the
\* aggregation runs and the answer is the success payload that no cache
\* file at all would have given, never an error.
C3_UnusableCacheIsAMiss ==
    (pc = "done" /\ Unusable(PreFile)) =>
        /\ path = "miss"
        /\ AggregationSteps \subseteq did
        /\ resp.code = 200
        /\ resp.body.status = "success"
        /\ resp = ExamplesOutcome(call.lib, call.env, AbsentFile, pre.clock).resp

\* a request that met a cache file holding JSON of the wrong shape
C3_Witness ==
    /\ pc = "done"
    /\ PreFile.kind = "list"
    /\ path = "miss"
    /\ resp.code = 200

\* C4: every request that is not a fresh hit answers the success payload
\* with the current integer timestamp and writes exactly that payload over
\* the cache file; a failed write leaves the response as it is.
C4_MissWritesCache ==
    (pc = "done" /\ path # "hit") =>
        /\ path = "miss"
        /\ "write" \in did
        /\ resp.code = 200
        /\ resp.body.status = "success"
        /\ resp.body.examples # <<>>
        /\ resp.body.timestamp = IntTime(clock)
        /\ resp.body.tsKind = "int"
        /\ call.env.write = "ok" => cache[call.lib] = DictFile(resp.body)
        /\ call.env.write = "open_fails" => cache[call.lib] = PreFile
        /\ call.env.write = "dump_fails" => Unusable(cache[call.lib])
        /\ \A lib \in CacheLibs \ {call.lib} : cache[lib] = pre.cache[lib]

\* a stale entry overwritten by a request left with the synthetic
\* fallback alone
C4_Witness ==
    /\ pc = "done" /\ path = "miss"
    /\ PreFile.kind = "dict" /\ PreFile.payload.tsKind = "int"
    /\ call.env.write = "ok"
    /\ resp.body.examples = <<GeneratedExample(call.lib)>>
    /\ cache[call.lib] = DictFile(resp.body)
    /\ cache[call.lib] # PreFile

----------------------------------------------------------------------------
(* Properties of one aggregation, under SpecAgg *)

Returned == resp.body.examples

Has(source, item, block) ==
    \E k \in 1..Len(Returned) :
        /\ Returned[k].source = source
        /\ Returned[k].item = item
        /\ Returned[k].block = block

\* the code-search items the request fetches
FetchedItems ==
    IF call.env.gh.search = "ok" THEN Take(call.env.gh.items, ItemLimit) ELSE <<>>

\* the answers the request scans
ScannedAnswers ==
    IF call.env.so.search = "ok" THEN Take(call.env.so.items, ItemLimit) ELSE <<>>

\* member i is reached: the module loads and no docstring before it raises
MemberReached(i) ==
    /\ LoadModule(call.lib).exc = "none"
    /\ call.env.doc.moduleDoc # "raise"
    /\ \A j \in 1..(i - 1) : call.env.doc.members[j] # "raise"

\* C5: whatever fails among the providers and the items, the answer is the
\* success payload and holds the example of every item that did not fail:
\* a failed item or provider takes nothing away from the others.
C5_PartialResultsSurvive ==
    pc = "done" =>
        /\ resp.code = 200
        /\ resp.body.status = "success"
        /\ \A i \in 1..Len(FetchedItems) :
                FetchedItems[i] = "ok" => Has("GitHub", i, 1)
        /\ \A i \in 1..Len(ScannedAnswers) :
                ~ScannedAnswers[i].raises =>
                    \A b \in 1..Len(ScannedAnswers[i].blocks) :
                        ScannedAnswers[i].blocks[b] >= MinCodeLen
                            => Has("Stack Overflow", i, b)
        /\ (LoadModule(call.lib).exc = "none" /\ call.env.doc.moduleDoc = "example")
                => Has("Library Documentation", 0, 1)
        /\ \A i \in 1..Len(call.env.doc.members) :
                (MemberReached(i) /\ call.env.doc.members[i] = "example")
                    => Has("Member Documentation", i, 1)

\* the first item fails with an exception, the Q&A provider fails, and the
\* example of the second item is returned
C5_Witness ==
    /\ pc = "done"
    /\ Len(FetchedItems) = 2
    /\ FetchedItems[1] = "exception"
    /\ FetchedItems[2] = "ok"
    /\ call.env.so.search = "exception"
    /\ Has("GitHub", 2, 1)
    /\ resp.body.status = "success"

\* none of the three sources yields an example
NoSourceYields ==
    /\ DocstringBody(call.lib, call.env.doc).examples = <<>>
    /\ GithubBody(call.env.gh).examples = <<>>
    /\ StackOverflowBody(call.env.so).examples = <<>>

\* C6: with all three sources empty the answer is exactly one "Generated"
\* example whose code imports the requested library; otherwise no
\* "Generated" example is present.
C6_FallbackOnlyWhenEmpty ==
    pc = "done" =>
        IF NoSourceYields
        THEN /\ Len(Returned) = 1
             /\ Returned[1].source = "Generated"
             /\ Returned[1].code = <<"import", call.lib>>
        ELSE \A k \in 1..Len(Returned) : Returned[k].source # "Generated"

\* every provider answers and still there is nothing to show
C6_Witness ==
    /\ pc = "done"
    /\ call.env.gh.search = "ok" /\ Len(call.env.gh.items) = 2
    /\ call.env.so.search = "ok" /\ Len(call.env.so.items) = 1
    /\ Len(Returned) = 1
    /\ Returned[1].source = "Generated"
    /\ Returned[1].code = <<"import", "doesnotexist123">>

\* the group of a source label: docstrings, code search, Q&A
Group(source) ==
    CASE source \in {"Library Documentation", "Member Documentation"} -> 1
      [] source = "GitHub" -> 2
      [] source = "Stack Overflow" -> 3
      [] OTHER -> 0

\* C7: in the list of an aggregation every docstring example precedes
\* every code-search example, which precedes every Q&A example.
C7_GroupsInOrder ==
    pc = "done" =>
        \A j \in 1..Len(Returned) : \A k \in 1..Len(Returned) :
            j < k => Group(Returned[j].source) <= Group(Returned[k].source)

\* a list with examples of all three groups
C7_Witness ==
    /\ pc = "done"
    /\ \E j \in 1..Len(Returned) : Group(Returned[j].source) = 1
    /\ \E j \in 1..Len(Returned) : Group(Returned[j].source) = 2
    /\ \E j \in 1..Len(Returned) : Group(Returned[j].source) = 3

----------------------------------------------------------------------------
(* Properties of get_source_code, under SpecSource *)

\* type and name are given, and the kind is "class", "function", or
\* "method" with a parent class
ValidCombination(q) ==
    \/ q.type \in {"class", "function"}
    \/ q.type = "method" /\ q.parent # ""

ValidParameters(q) == q.name # "" /\ q.type # "" /\ ValidCombination(q)

\* C8: every request whose kind is not "class", "function" or "method"
\* with a parent, and every request with type or name missing, is answered
\* 400, for every library name.
C8_InvalidRequestIs400 ==
    (pc = "done" /\ ~ValidParameters(srcCall)) => srcResp.code = 400

\* neither the lowercase form nor the literal form of the name is a module
NotLoadable(library_name) ==
    /\ ImportModule(Lower(library_name)).exc = "ImportError"
    /\ ImportModule(library_name).exc = "ImportError"

\* the module the name resolves to: the lowercase form if it is installed
LoadedModule(library_name) ==
    IF Lower(library_name) \in Installed THEN Lower(library_name) ELSE library_name

Loadable(library_name) ==
    /\ LoadedModule(library_name) \in Installed
    /\ ImportModule(Lower(library_name)).exc \in {"none", "ImportError"}

\* some step of the resolution finds no attribute of that name
AttributeMissing(q) ==
    LET module == LoadedModule(q.library_name)
    IN  IF q.type = "method"
        THEN \/ q.parent \notin ModuleMembers(module)
             \/ q.name \notin ClassMembers(q.parent)
        ELSE q.name \notin ModuleMembers(module)

IsNotFound(message) ==
    /\ srcResp.code = 404
    /\ srcResp.status = "error"
    /\ srcResp.message = message

Place(part) ==
    CASE part = "file_path" -> 1
      [] part = "object_type" -> 2
      [] part = "native_note" -> 3
      [] part = "declaring_module" -> 4
      [] part = "docstring" -> 5
      [] part = "repr" -> 6
      [] OTHER -> 0

Parts == srcResp.parts

FallbackBuilt == pc = "done" /\ Parts # <<>> /\ Parts[1] = "header"

HasPart(part) == \E k \in 1..Len(Parts) : Parts[k] = part

\* C10: the parts of the fallback composite appear in the order file path,
\* object type, native note, declaring module, docstring, repr; a part is
\* present only if its precondition holds; the object-type line always is.
C10_FallbackOrder ==
    FallbackBuilt =>
        /\ \A j \in 1..Len(Parts) : \A k \in 1..Len(Parts) :
                j < k => Place(Parts[j]) < Place(Parts[k])
        /\ HasPart("object_type")
        /\ HasPart("file_path") => srcCall.obj.hasFile
        /\ HasPart("native_note") => srcCall.obj.kind \in {"builtin", "builtin_class"}
        /\ HasPart("declaring_module") => srcCall.obj.kind = "class"
        /\ HasPart("docstring") => srcCall.obj.hasDoc
        /\ HasPart("repr") =>
                (~srcCall.obj.reprRaises /\ srcCall.obj.reprLen < ReprLimit)

\* the composite of a native built-in with a file path, a docstring and a
\* short representation
C10_Witness ==
    /\ pc = "done"
    /\ srcCall.obj.kind = "builtin"
    /\ Parts = <<"header", "file_path", "object_type", "native_note",
                 "docstring", "repr">>

----------------------------------------------------------------------------
(* Properties of get_library_info, under SpecInfo *)

InfoDone == pc = "done" /\ infoResp.status = "success"

\* the names a successful response shows, at the top level and in the
\* method lists
ShownNames ==
    {infoResp.lists.classes[k].name : k \in DOMAIN infoResp.lists.classes}
    \cup {infoResp.lists.functions[k].name : k \in DOMAIN infoResp.lists.functions}
    \cup {infoResp.lists.constants[k].name : k \in DOMAIN infoResp.lists.constants}
    \cup UNION {{infoResp.lists.classes[k].methods[j].name :
                    j \in DOMAIN infoResp.lists.classes[k].methods} :
                 k \in DOMAIN infoResp.lists.classes}

\* C11: no name that begins with an underscore is among the classes,
\* functions, constants or methods of a successful response
C11_NoPrivateNames ==
    InfoDone => \A name \in ShownNames : ~StartsWith(name, "_")

\* a module with a private member, and with a public class that has a
\* private function and a public one
C11_Witness ==
    /\ InfoDone
    /\ \E k \in DOMAIN infoCall.env.members : StartsWith(infoCall.env.members[k].name, "_")
    /\ \E k \in DOMAIN infoResp.lists.classes :
            /\ infoResp.lists.classes[k].methods # <<>>
            /\ \E m \in DOMAIN infoCall.env.members :
                    /\ infoCall.env.members[m].name = infoResp.lists.classes[k].name
                    /\ \E a \in DOMAIN infoCall.env.members[m].obj.attrs :
                            /\ infoCall.env.members[m].obj.attrs[a].isfunction
                            /\ StartsWith(infoCall.env.members[m].obj.attrs[a].name, "_")

LowerLoad == ImportModule(Lower(infoCall.library_name))

LiteralLoad == ImportModule(infoCall.library_name)

\* the lowercase form is tried first, the literal form only after it failed
TriedInOrder ==
    /\ infoResp.tried[1] = Lower(infoCall.library_name)
    /\ Len(infoResp.tried) <= 2
    /\ Len(infoResp.tried) = 2 =>
            /\ LowerLoad.exc # "none"
            /\ infoResp.tried[2] = infoCall.library_name

NeitherLoads ==
    LowerLoad.exc # "none" /\ (Len(infoResp.tried) = 2 => LiteralLoad.exc # "none")

\* C12 as stated: 404 iff neither load succeeds, and otherwise success
\* with the requested name
C12_NotFoundIffNoLoad ==
    pc = "done" =>
        /\ TriedInOrder
        /\ infoResp.code = 404 <=> NeitherLoads
        /\ ~NeitherLoads =>
                /\ infoResp.status = "success"
                /\ infoResp.metadata.name = infoCall.library_name

\* both forms of the name raise ImportError
NeitherFound == LowerLoad.exc = "ImportError" /\ LiteralLoad.exc = "ImportError"

ModuleLoaded ==
    \/ LowerLoad.exc = "none"
    \/ LowerLoad.exc = "ImportError" /\ LiteralLoad.exc = "none"

\* C12, amended: the literal form is tried only after the lowercase form
\* raised ImportError; 404 iff an ImportError escapes (from both loads, or
\* from the enumeration of the loaded module), 500 iff another exception
\* escapes, and otherwise success with the requested name, verbatim
C12_NotFoundOnImportError ==
    pc = "done" =>
        /\ TriedInOrder
        /\ Len(infoResp.tried) = 2 <=> LowerLoad.exc = "ImportError"
        /\ infoResp.code = 404 <=>
                (NeitherFound \/ (ModuleLoaded /\ infoCall.env.enum = "ImportError"))
        /\ infoResp.code = 500 <=>
                (~NeitherFound /\ (~ModuleLoaded \/ infoCall.env.enum = "Exception"))
        /\ (ModuleLoaded /\ infoCall.env.enum = "ok") =>
                /\ infoResp.status = "success"
                /\ infoResp.metadata.name = infoCall.library_name

\* a name whose lowercase form does not load and whose literal form does
C12_Witness ==
    /\ InfoDone
    /\ infoResp.tried = <<Lower(infoCall.library_name), infoCall.library_name>>
    /\ Lower(infoCall.library_name) # infoCall.library_name
    /\ infoResp.metadata.name = infoCall.library_name

RECURSIVE ClaimedConstants(_)
\* the values C13 gives the public members that are neither class nor
\* function and that str() accepts
ClaimedConstants(members) ==
    IF members = <<>> THEN <<>>
    ELSE LET m == Head(members)
             n == m.obj.str.strLen
         IN  (IF ~StartsWith(m.name, "_") /\ m.obj.kind = "other" /\ ~m.obj.str.raises
              THEN <<[name |-> m.name,
                      value |-> IF n <= ValueLimit THEN [kept |-> n, ellipsis |-> FALSE]
                                ELSE [kept |-> ValueLimit, ellipsis |-> TRUE]]>>
              ELSE <<>>)
             \o ClaimedConstants(Tail(members))

\* len(value)
ValueLen(value) == value.kept + (IF value.ellipsis THEN EllipsisLen ELSE 0)

\* C13: a constant's value is the whole str() up to 1000 characters, its
\* first 1000 characters and "..." only beyond, and never longer than 1003
C13_ConstantValue ==
    InfoDone =>
        /\ infoResp.lists.constants = ClaimedConstants(infoCall.env.members)
        /\ \A k \in DOMAIN infoResp.lists.constants :
                ValueLen(infoResp.lists.constants[k].value) <= ValueLimit + EllipsisLen

----------------------------------------------------------------------------
(* Properties of format_docstring, under SpecFormat *)

\* C14: format_docstring is idempotent: applied to its own result it returns
\* that result, for every string and for None
C14_Idempotent ==
    pc = "done" => formatted[2] = formatted[1]

----------------------------------------------------------------------------
(* Properties of extract_code_blocks, under SpecExtract *)

\* a text in which none of the three patterns finds a block
NoBlock(d) ==
    \/ d.none
    \/ /\ FindAllFrom("fenced", d.s, 1) = <<>>
       /\ FindAllFrom("prompt", d.s, 1) = <<>>
       /\ FindAllFrom("indented", d.s, 1) = <<>>

\* C15: extract_code_blocks raises for no text, and returns the empty
\* sequence for a text that holds no block
C15_NeverRaises ==
    pc = "done" =>
        /\ examples.exc = "none"
        /\ NoBlock(text) => examples.out = <<>>

----------------------------------------------------------------------------
(* Properties of search_pypi, under SpecPypi *)

PypiDone == pc = "done" /\ pypiResp.code = 200 /\ pypiResp.status = "success"

\* the query as the handler reads it
Query == LowerStr(pypiCall.q)

\* the offsets at which the query occurs in a name, ignoring case
Offsets(name) == {i \in 0..Len(name) : HasAt(LowerStr(name), i + 1, Query)}

\* the score C16 gives a record of that name
ScoreByName(name) ==
    IF LowerStr(name) = Query THEN 100
    ELSE IF Offsets(name) = {} THEN 50
    ELSE IF Least(Offsets(name)) < 80 THEN 90 - Least(Offsets(name))
    ELSE 90 - 80

\* C16: the relevance of every returned record is the score of its name:
\* 100 when it equals the query ignoring case, 90 - min(offset, 80) when
\* the query occurs in it, 50 otherwise
C16_RelevanceByName ==
    PypiDone =>
        \A k \in DOMAIN pypiResp.packages :
            pypiResp.packages[k].relevance = ScoreByName(pypiResp.packages[k].name)

\* C16 for the records of a real package: also violated
C16_RealPackages ==
    PypiDone =>
        \A k \in DOMAIN pypiResp.packages :
            pypiResp.packages[k].via # "placeholder" =>
                pypiResp.packages[k].relevance = ScoreByName(pypiResp.packages[k].name)

\* every call to the registry fails: it raises, or answers another status than 200
UpstreamFails ==
    /\ pypiCall.env.direct.kind # "ok"
    /\ pypiCall.env.index.kind # "ok"
    /\ pypiCall.env.scrape.kind # "ok"

\* C17: a request with a query is never answered 500, and when the calls to
\* the registry fail the body has status "error" and no packages
C17_NeverInternalError ==
    (pc = "done" /\ Query # <<>>) =>
        /\ pypiResp.code # 500
        /\ UpstreamFails => (pypiResp.status = "error" /\ pypiResp.packages = <<>>)

\* the second half of C17 alone, for requests whose parameters are integers:
\* also violated
C17_ErrorBodyOnFailure ==
    (pc = "done" /\ Query # <<>> /\ pypiCall.page.int /\ pypiCall.per_page.int) =>
        (UpstreamFails => (pypiResp.status = "error" /\ pypiResp.packages = <<>>))

----------------------------------------------------------------------------
(* Properties of concurrent get_library_examples requests, under SpecRace *)

AllDone == \A r \in Racers : reqs[r].at = "done"

\* C18: no request returns an error or a partly written entry, and when
\* all requests have finished the file holds the complete payload of one
\* of them
C18_WholeFileReplace ==
    /\ \A r \in Racers :
            reqs[r].at = "done" =>
                /\ reqs[r].resp \in {"cached", "built"}
                /\ \E w \in Racers : reqs[r].body = Payload(w, reqs[w].len)
    /\ AllDone => Complete(disk.blocks)

\* the first half of C18 alone: it holds
C18_NoPartialEntryReturned ==
    \A r \in Racers :
        reqs[r].at = "done" =>
            /\ reqs[r].resp \in {"cached", "built"}
            /\ \E w \in Racers : reqs[r].body = Payload(w, reqs[w].len)

\* a request read the file while another had written only a part of it
C18_PartialSeen ==
    \E r \in Racers :
        /\ reqs[r].at = "read"
        /\ disk.blocks # <<>>
        /\ ~Complete(disk.blocks)

----------------------------------------------------------------------------
(* Properties of the fetches of code-search results, under SpecFetch *)

\* C19: the fetches of one request run in parallel in a pool: a request
\* that fetched two items or more had two fetches under way at some time;
\* never more than 5 are under way, and never more than 5 items are fetched
C19_ParallelPool ==
    /\ fetch.inFlight <= 5
    /\ Len(fetch.outcomes) <= 5
    /\ (fetch.at = "done" /\ Len(fetch.outcomes) >= 2) => fetch.peak >= 2

\* what holds instead: a fetch begins only when none is under way, so they
\* run one after the other; at most 5 items are fetched
C19_OneAtATime ==
    /\ fetch.inFlight <= 1
    /\ fetch.peak <= 1
    /\ Len(fetch.outcomes) <= 5

\* the code search returned more than 5 items, and 5 were fetched
C19_FiveFetched ==
    /\ fetch.at = "done"
    /\ fetch.items > 5
    /\ Len(fetch.outcomes) = 5

\* the query is one word: the direct lookup is made
OneWord == \A k \in DOMAIN Query : ~In(Query[k], "space")

\* the records of the response that the given strategies produced
Yield(S) == {k \in DOMAIN pypiResp.packages : pypiResp.packages[k].via \in S}

\* the strategies were attempted in the order direct, index, scrape
InOrder ==
    \A i, j \in DOMAIN pypiResp.attempted :
        (i < j) =>
            \/ pypiResp.attempted[i] = "direct"
            \/ pypiResp.attempted[i] = "index" /\ pypiResp.attempted[j] = "scrape"

Attempted(strategy) == \E k \in DOMAIN pypiResp.attempted : pypiResp.attempted[k] = strategy

\* the packages list is the placeholder record and nothing else
OnlyPlaceholder ==
    /\ Len(pypiResp.packages) = 1
    /\ pypiResp.packages[1].via = "placeholder"
    /\ pypiResp.packages[1].name = PypiLit.search_for \o Query \o PypiLit.failed

\* C20 as stated: a later strategy is attempted only when all earlier ones
\* yielded nothing
C20_UntilOneYields ==
    PypiDone =>
        /\ InOrder
        /\ Attempted("direct") <=> OneWord
        /\ Attempted("index") <=> Yield({"direct"}) = {}
        /\ Attempted("scrape") <=> Yield({"direct", "index", "basic"}) = {}
        /\ Yield({"direct", "index", "basic", "scrape"}) = {} => OnlyPlaceholder

\* C20, amended: the index is scanned whatever the direct lookup yielded,
\* the search page is read only when both yielded nothing; no failure of a
\* strategy propagates; with nothing yielded the packages are the
\* placeholder alone, and a page size of 0 gives the error body
C20_IndexAlwaysScanned ==
    (pc = "done" /\ Query # <<>> /\ pypiCall.page.int /\ pypiCall.per_page.int) =>
        /\ pypiResp.code = 200
        /\ InOrder
        /\ Attempted("direct") <=> OneWord
        /\ Attempted("index")
        /\ pypiCall.per_page.n = 0 => (pypiResp.status = "error" /\ pypiResp.packages = <<>>)
        /\ pypiCall.per_page.n > 0 =>
                /\ pypiResp.status = "success"
                /\ Yield({"direct"}) # {} <=> (OneWord /\ pypiCall.env.direct.kind = "ok")
                /\ Attempted("scrape") <=> Yield({"direct", "index", "basic"}) = {}
                /\ Yield({"scrape"}) # {} => Attempted("scrape")
                /\ IF Yield({"direct", "index", "basic", "scrape"}) = {} THEN OnlyPlaceholder
                   ELSE Yield({"placeholder"}) = {}

\* the direct lookup found the package, and the index scan added another
C20_Witness ==
    /\ PypiDone
    /\ Yield({"direct"}) # {}
    /\ Yield({"index", "basic"}) # {}
    /\ pypiResp.attempted = <<"direct", "index">>

----------------------------------------------------------------------------
(* Properties of the prompt blocks of extract_code_blocks, under SpecExtract *)

\* the code of the prompt lines of the text: what follows ">>> " on a line
\* that begins with it, when something follows
PromptCode ==
    LET lines == SplitLines(text.s)
    IN  {Slice(lines[k], 5, Len(lines[k])) :
            k \in {j \in DOMAIN lines :
                      HasAt(lines[j], 1, ExtractLit.prompt_space) /\ Len(lines[j]) > 4}}

\* the lines of the snippets returned
SnippetLines ==
    UNION {{SplitLines(examples.out[k])[j] : j \in DOMAIN SplitLines(examples.out[k])} :
            k \in DOMAIN examples.out}

\* C21: the code of every prompt line, without its 4-character prefix,
\* is a line of some snippet returned
C21_PromptCodeKept ==
    (pc = "done" /\ ~text.none /\ examples.exc = "none") =>
        \A code \in PromptCode : code \in SnippetLines

----------------------------------------------------------------------------
(* Properties of extract_relevant_code, under SpecRelevant *)

\* the 0-based indexes of the lines that hold a pattern
LinesWith(lines, pattern) ==
    {i \in 0..(Len(lines) - 1) :
        \E j \in 1..Len(lines[i + 1]) : HasAt(lines[i + 1], j, pattern)}

ImportMatches(lines) ==
    LinesWith(lines, RelevantLit.import \o fileCall.library_name)
    \cup LinesWith(lines, RelevantLit.from \o fileCall.library_name
                          \o RelevantLit.import_after)

AttributeMatches(lines) == LinesWith(lines, fileCall.library_name \o <<".">>)

\* the lines from index max(0, i - 5) through index i + after, or the last
\* line, joined; one such snippet for each match, in match order
Windows(lines, matches, after) ==
    [k \in 1..Cardinality(matches) |->
        LET i == CHOOSE m \in matches : Cardinality({j \in matches : j < m}) = k - 1
            first == IF i - 5 > 0 THEN i - 5 ELSE 0
            last == IF i + after < Len(lines) - 1 THEN i + after ELSE Len(lines) - 1
        IN  JoinLines(SubSeq(lines, first + 1, last + 1))]

\* the snippets are those of the windows that end at index i + after;
\* attribute-access matches count only when no import line matches, and
\* none-found is returned only when no line matches
WindowsThrough(after) ==
    LET lines == SplitLines(fileCall.file_content)
        imports == ImportMatches(lines)
        matches == IF imports # {} THEN imports ELSE AttributeMatches(lines)
    IN  IF matches = {} THEN snippet.none
        ELSE ~snippet.none /\ snippet.s = JoinSnippets(Windows(lines, matches, after))

\* the result is not cut at the length limit
Uncut == snippet.none \/ Len(snippet.s) <= SnippetLimit

\* C22: the snippet of the match at index i is the lines max(0, i - 5)
\* through i + 30; attribute matches are used only when no import line
\* matches; none-found is returned only when no line matches
C22_WindowThrough30 ==
    (pc = "done" /\ Uncut) => WindowsThrough(30)

\* what holds instead: the window ends at index i + 29
C22_WindowThrough29 ==
    (pc = "done" /\ Uncut) => WindowsThrough(29)

----------------------------------------------------------------------------
(* Claims about assistant.py, under SpecAsk *)

\* the question in lower case
LoweredQuestion ==
    LET capitals == <<"I", "L", "Q", "S", "U">>
        smalls == <<"i", "l", "q", "s", "u">>
    IN  [k \in DOMAIN askCall.query |->
            IF \E c \in DOMAIN capitals : capitals[c] = askCall.query[k]
            THEN smalls[CHOOSE c \in DOMAIN capitals : capitals[c] = askCall.query[k]]
            ELSE askCall.query[k]]

\* how many keyword phrases of the k-th category of the taxonomy occur in q
PhrasesIn(q, k) ==
    LET phrases == {LIBRARY_CATEGORIES[k].keywords[j] :
                        j \in DOMAIN LIBRARY_CATEGORIES[k].keywords}
    IN  Cardinality({p \in phrases :
                        \E i \in 1..(Len(q) - Len(p) + 1) : SubSeq(q, i, i + Len(p) - 1) = p})

\* C23: categorize_query returns exactly the categories of which at least one
\* keyword phrase occurs in the lowercased query, each with the number of its
\* phrases that occur as its score, ordered by score descending, equal scores
\* in the order of the taxonomy.
C23_ScoredCategories ==
    pc = "done" =>
        LET out == askResp.categories
            q == LoweredQuestion
            hits == [k \in DOMAIN LIBRARY_CATEGORIES |-> PhrasesIn(q, k)]
            Index(category) ==
                CHOOSE k \in DOMAIN LIBRARY_CATEGORIES :
                    LIBRARY_CATEGORIES[k].category = category
        IN  /\ Len(out) = Cardinality({k \in DOMAIN LIBRARY_CATEGORIES : hits[k] > 0})
            /\ \A k \in DOMAIN LIBRARY_CATEGORIES :
                    hits[k] > 0 =>
                        \E p \in DOMAIN out :
                            out[p] = <<LIBRARY_CATEGORIES[k].category, hits[k]>>
            /\ \A i, j \in DOMAIN out :
                    i < j =>
                        \/ out[i][2] > out[j][2]
                        \/ out[i][2] = out[j][2] /\ Index(out[i][1]) < Index(out[j][1])

\* a question with a capital letter that scores 2 for one category and 1 for
\* each of two others, the first of them earlier in the taxonomy than the 2
C23_Witness ==
    /\ pc = "done"
    /\ askCall.query # LoweredQuestion
    /\ Len(askResp.categories) = 3
    /\ askResp.categories[1] = <<"database", 2>>
    /\ askResp.categories[2] = <<"ai", 1>>
    /\ askResp.categories[3] = <<"ui", 1>>

\* the names the registry search hands to the assistant
FoundNames ==
    IF askCall.registry.kind = "ok" /\ askCall.registry.status_code = 200
    THEN SubSeq(askCall.registry.names, 1,
                IF Len(askCall.registry.names) < DefaultMaxResults
                THEN Len(askCall.registry.names) ELSE DefaultMaxResults)
    ELSE <<>>

\* the names of the catalog entries of the top 2 scoring categories
CatalogNames ==
    LET top == askResp.categories
        Of(k) == IF k <= Len(top) /\ top[k][1] \in DOMAIN COMMON_LIBRARIES
                 THEN COMMON_LIBRARIES[top[k][1]] ELSE <<>>
    IN  Of(1) \o Of(2)

\* the names of the libraries of the response
ReturnedNames ==
    [k \in DOMAIN askResp.response.libraries |-> askResp.response.libraries[k].name]

\* the list is what the claim describes: the registry search results capped to
\* 10 when no category scores, otherwise the catalog entries of the top 2
\* categories, topped up when they are fewer than 5 with the registry results
\* whose name is not yet in the list, and cut to 15
ListedAsDescribed ==
    LET found == FoundNames
        catalog == CatalogNames
        fresh == SelectSeq([k \in DOMAIN found |-> k],
                           LAMBDA k : /\ \A j \in DOMAIN catalog : catalog[j] # found[k]
                                      /\ \A j \in 1..(k - 1) : found[j] # found[k])
        extra == IF Len(catalog) < 5 THEN [k \in DOMAIN fresh |-> found[fresh[k]]] ELSE <<>>
        First(s, n) == SubSeq(s, 1, IF Len(s) < n THEN Len(s) ELSE n)
    IN  /\ Len(ReturnedNames) <= 15
        /\ IF askResp.categories = <<>>
           THEN ReturnedNames = First(found, 10)
           ELSE ReturnedNames = First(catalog \o extra, 15)

NoNameTwice ==
    \A i, j \in DOMAIN ReturnedNames : i # j => ReturnedNames[i] # ReturnedNames[j]

\* C24, as stated: answer_library_question returns the registry search results
\* capped to 10 when no category scores, otherwise the catalog entries of the
\* top 2 scoring categories, topped up with registry results unique by name
\* only when the catalog entries are fewer than 5; the list never exceeds 15
\* entries and never holds two entries of the same name.
C24_NeverSameNameTwice ==
    pc = "done" => ListedAsDescribed /\ NoNameTwice

\* C24, amended: as above, and the list never holds two entries of the same
\* name when a category scores; when none scores the list is the first 10
\* registry results as the registry gave them.
C24_NoSameNameWhenCategorized ==
    pc = "done" => ListedAsDescribed /\ (askResp.categories # <<>> => NoNameTwice)

\* a category without catalog entries scores, the registry lists a name twice
\* and more names than fit: the list is topped up and cut
C24_Witness ==
    /\ pc = "done"
    /\ askResp.categories = <<<<"networking", 1>>>>
    /\ \E i, j \in DOMAIN FoundNames : i # j /\ FoundNames[i] = FoundNames[j]
    /\ Len(ReturnedNames) = LibraryLimit
    /\ \A k \in DOMAIN askResp.response.libraries :
            askResp.response.libraries[k].from = "registry"

----------------------------------------------------------------------------
(* C25, under SpecPypi *)

\* a successful response to a request with page >= 1 and per_page >= 1
PagedDone ==
    /\ PypiDone
    /\ pypiCall.page.int /\ pypiCall.page.n >= 1
    /\ pypiCall.per_page.int /\ pypiCall.per_page.n >= 1

\* no two records of the packages list have the same name ignoring case
NoCaseDuplicates ==
    \A i, j \in DOMAIN pypiResp.packages :
        i # j => LowerStr(pypiResp.packages[i].name) # LowerStr(pypiResp.packages[j].name)

\* C25: for every query, page and per_page >= 1 the packages list of a
\* successful PyPI search response holds at most per_page records and no two
\* records whose names are equal ignoring case, whichever strategies
\* contributed to it.
C25_AtMostPerPage ==
    PagedDone =>
        /\ Len(pypiResp.packages) <= pypiCall.per_page.n
        /\ NoCaseDuplicates

\* the second half of C25 alone, which holds as long as the registry gives
\* the details of a package under the name the index lists it with
C25_NoDuplicateNames == PagedDone => NoCaseDuplicates

====
